---- MODULE Spec2Model ----
(***************************************************************************)
(* Model of the rustyapa transaction codecs (binary, text, CSV) and of the  *)
(* comparer and the converter built on them.                               *)
(*                                                                         *)
(* A stream is a sequence of bytes (0..255); a last element IO_ERROR says   *)
(* that the reader fails after the bytes before it.  A Rust String is      *)
(* modelled by its UTF-8 bytes, which is what it is in memory: as_bytes is *)
(* then the identity and String::from_utf8 is a validity check.            *)
(* Integers are kept below 2^31 (the checker's integer range); u64 / i64   *)
(* values are encoded and decoded byte by byte, as to_be_bytes and         *)
(* from_be_bytes do, so that two's complement is preserved; whether a      *)
(* decimal string overflows u64 / i64 is decided on its digits.            *)
(***************************************************************************)
EXTENDS Integers, Sequences, FiniteSets, TLC

VARIABLES
    harness,     \* "write_then_parse" (a round trip), "parse" (a given input)
                 \* "comparer" (a run of the comparer) or "converter" (a run
                 \* of the converter)
    codec,       \* which codec the run uses: "binary", "text" or "csv"
    pc,          \* control location of the run
    data,        \* the records handed to write (round-trip runs, converter)
    widx,        \* number of records of data already written
    input,       \* the byte stream: filled by write, consumed by parse
    cursor,      \* number of bytes of input consumed by the reader
    pos,         \* BinaryCodec::parse: the running offset `pos`
    line_num,    \* TextCodec / CsvCodec parse: `line_num`
    input_line,  \* TextCodec::parse: `input_line`, the last raw line read
    builder,     \* TextCodec::parse: `record_builder`
    record_size, \* BinaryCodec::parse: `record_size` of the frame being read
    result,      \* parse: the `result` vector
    outcome,     \* what parse (or run) returned; [tag |-> "none"] while running
    format1,     \* comparer: args.format1
    file1,       \* comparer: the bytes of the file args.file1
    format2,     \* comparer: args.format2
    file2,       \* comparer: the bytes of the file args.file2
    record_count, \* comparer: the HashMap `record_count`
    stdout,      \* comparer: the lines run printed; converter: the bytes that
                 \* reached stdout
    stdout_buffer, \* converter: the bytes in the buffer of std::io::stdout()
    stdout_room, \* converter: how many bytes stdout takes
    output_format \* converter: args.output_format

cli_vars == <<format1, file1, format2, file2, record_count, stdout, stdout_buffer,
             stdout_room, output_format>>

vars == <<harness, codec, pc, data, widx, input, cursor, pos, line_num, input_line,
          builder, record_size, result, outcome, format1, file1, format2, file2,
          record_count, stdout, stdout_buffer, stdout_room, output_format>>

(***************************************************************************)
(* Bounds of the model.                                                    *)
(***************************************************************************)
MaxRecords == 2   \* longest record sequence handed to write
MaxFrames == 2    \* most frames / blocks / rows in a hand-made input
MaxInsertLines == 22   \* longest input, in lines, that the insertion of a line is tried on

(***************************************************************************)
(* Generic sequence helpers.                                               *)
(***************************************************************************)
RECURSIVE Concat(_)
Concat(ss) == IF ss = <<>> THEN <<>> ELSE Head(ss) \o Concat(Tail(ss))

SeqsUpTo(S, n) == UNION {[1..k -> S] : k \in 0..n}

Drop(s, n) == SubSeq(s, n + 1, Len(s))
Take(s, n) == SubSeq(s, 1, n)

IsPrefix(p, s) == Len(p) <= Len(s) /\ Take(s, Len(p)) = p

(***************************************************************************)
(* Byte constants used by the grammars.                                    *)
(***************************************************************************)
FIELD_KV_DELIMITER == 58     \* ':'
COMMENT_SYMBOL_1LINE == 35   \* '#'
CSV_DELIMITER == 44          \* ','
QUOTE == 34                  \* '"'
LF == 10                     \* '\n'
CR == 13                     \* '\r'
SPACE == 32                  \* ' '
MINUS == 45                  \* '-'
PLUS == 43                   \* '+'
DIGIT0 == 48                 \* '0'

\* "YPBN"
RECORD_MAGIC == <<89, 80, 66, 78>>
\* mutant: the amount, timestamp and status fields left out of the sum
MINIMUM_RECORD_SIZE_without_three_fields == 8 + 1 + 8 + 8 + 4

MINIMUM_RECORD_SIZE == 8 + 1 + 8 + 8 + 8 + 8 + 1 + 4

(***************************************************************************)
(* Domain model: domain/tx.rs.                                             *)
(***************************************************************************)
TxKinds == {"Deposit", "Transfer", "Withdrawal"}
TxStatuses == {"Success", "Failure", "Pending"}
TxFieldKeys == {"Id", "TxKind", "FromUserId", "ToUserId", "Amount",
                "Timestamp", "Status", "Description"}

TxRecord(id, kind, from, to, amount, ts, status, description) ==
    [id |-> id, kind |-> kind, from |-> from, to |-> to, amount |-> amount,
     ts |-> ts, status |-> status, description |-> description]

(***************************************************************************)
(* Error model: errors.rs and codecs/errors.rs.                            *)
(***************************************************************************)
Running == [tag |-> "none"]
Ok(records) == [tag |-> "Ok", records |-> records]
ReadError == [tag |-> "ReadError"]
ParsingError(source, context) ==
    [tag |-> "ParsingError", source |-> source, context |-> context]

MissingField(key) == [err |-> "MissingField", key |-> key]
UnparsableKey(s) == [err |-> "UnparsableKey", value |-> s]
UnparsableValue(s) == [err |-> "UnparsableValue", value |-> s]
Duplicate(key) == [err |-> "Duplicate", key |-> key]
NoFieldDelimiter == [err |-> "NoFieldDelimiter"]
ShellBeQuoted(s) == [err |-> "ShellBeQuoted", value |-> s]
InvalidFileHeader == [err |-> "InvalidFileHeader"]
InvalidRecordHeader(s) == [err |-> "InvalidRecordHeader", value |-> s]
IncompleteRecord == [err |-> "IncompleteRecord"]

with_line_number_and_line(n, line) ==
    [ctx |-> "LineNumAndLine", line_num |-> n, line |-> line]
with_position(p) == [ctx |-> "Position", position |-> p]
with_position_and_field_key(p, key) ==
    [ctx |-> "PositionAndField", position |-> p, field_key |-> key]

\* Result<T, ParserError> of the value parsers
POk(v) == [ok |-> TRUE, value |-> v]
PErr(e) == [ok |-> FALSE, err |-> e]

(***************************************************************************)
(* Display / to_string of the domain types: domain/tx.rs, codecs/base.rs.  *)
(***************************************************************************)
RECURSIVE u_to_string(_)
\* Display of an unsigned integer: decimal digits, no sign, no padding
u_to_string(v) ==
    IF v < 10 THEN <<DIGIT0 + v>>
    ELSE Append(u_to_string(v \div 10), DIGIT0 + (v % 10))

\* Display of i64
i_to_string(v) == IF v < 0 THEN <<MINUS>> \o u_to_string(0 - v) ELSE u_to_string(v)

kind_to_string(k) ==
    CASE k = "Deposit" -> <<68, 69, 80, 79, 83, 73, 84>>                     \* "DEPOSIT"
      [] k = "Transfer" -> <<84, 82, 65, 78, 83, 70, 69, 82>>               \* "TRANSFER"
      [] k = "Withdrawal" -> <<87, 73, 84, 72, 68, 82, 65, 87, 65, 76>>     \* "WITHDRAWAL"

status_to_string(s) ==
    CASE s = "Success" -> <<83, 85, 67, 67, 69, 83, 83>>    \* "SUCCESS"
      [] s = "Failure" -> <<70, 65, 73, 76, 85, 82, 69>>    \* "FAILURE"
      [] s = "Pending" -> <<80, 69, 78, 68, 73, 78, 71>>    \* "PENDING"

field_key_to_string(key) ==
    CASE key = "Id" -> <<84, 88, 95, 73, 68>>                                         \* "TX_ID"
      [] key = "TxKind" -> <<84, 88, 95, 84, 89, 80, 69>>                             \* "TX_TYPE"
      [] key = "FromUserId" -> <<70, 82, 79, 77, 95, 85, 83, 69, 82, 95, 73, 68>>     \* "FROM_USER_ID"
      [] key = "ToUserId" -> <<84, 79, 95, 85, 83, 69, 82, 95, 73, 68>>               \* "TO_USER_ID"
      [] key = "Amount" -> <<65, 77, 79, 85, 78, 84>>                                 \* "AMOUNT"
      [] key = "Timestamp" -> <<84, 73, 77, 69, 83, 84, 65, 77, 80>>                  \* "TIMESTAMP"
      [] key = "Status" -> <<83, 84, 65, 84, 85, 83>>                                 \* "STATUS"
      [] key = "Description" -> <<68, 69, 83, 67, 82, 73, 80, 84, 73, 79, 78>>        \* "DESCRIPTION"

(***************************************************************************)
(* FromStr of the domain types: codecs/base.rs.                            *)
(***************************************************************************)
IsDigit(b) == b >= DIGIT0 /\ b <= DIGIT0 + 9

RECURSIVE digits_value(_)
digits_value(s) ==
    IF s = <<>> THEN 0
    ELSE 10 * digits_value(Take(s, Len(s) - 1)) + (s[Len(s)] - DIGIT0)

\* "cannot parse integer from empty string"
IntErrorEmpty ==
    <<99, 97, 110, 110, 111, 116, 32, 112, 97, 114, 115, 101, 32, 105, 110,
      116, 101, 103, 101, 114, 32, 102, 114, 111, 109, 32, 101, 109, 112, 116,
      121, 32, 115, 116, 114, 105, 110, 103>>
\* "invalid digit found in string"
IntErrorInvalidDigit ==
    <<105, 110, 118, 97, 108, 105, 100, 32, 100, 105, 103, 105, 116, 32, 102,
      111, 117, 110, 100, 32, 105, 110, 32, 115, 116, 114, 105, 110, 103>>

\* "number too large to fit in target type"
IntErrorPosOverflow ==
    <<110, 117, 109, 98, 101, 114, 32, 116, 111, 111, 32, 108, 97, 114, 103,
     101, 32, 116, 111, 32, 102, 105, 116, 32, 105, 110, 32, 116, 97, 114, 103,
     101, 116, 32, 116, 121, 112, 101>>
\* "number too small to fit in target type"
IntErrorNegOverflow ==
    <<110, 117, 109, 98, 101, 114, 32, 116, 111, 111, 32, 115, 109, 97, 108,
     108, 32, 116, 111, 32, 102, 105, 116, 32, 105, 110, 32, 116, 97, 114, 103,
     101, 116, 32, 116, 121, 112, 101>>

\* u64::MAX, i64::MAX and the magnitude of i64::MIN in decimal digits
U64_MAX == <<49, 56, 52, 52, 54, 55, 52, 52, 48, 55, 51, 55, 48, 57, 53, 53, 49, 54, 49, 53>>
I64_MAX == <<57, 50, 50, 51, 51, 55, 50, 48, 51, 54, 56, 53, 52, 55, 55, 53, 56, 48, 55>>
\* "18446744073709551616" and "9223372036854775809": one past the ends
U64_MAX_PLUS_1 == Take(U64_MAX, 19) \o <<DIGIT0 + 6>>
I64_MIN_MAGNITUDE_PLUS_1 == Take(I64_MAX, 18) \o <<DIGIT0 + 9>>

I64_MIN_MAGNITUDE == <<57, 50, 50, 51, 51, 55, 50, 48, 51, 54, 56, 53, 52, 55, 55, 53, 56, 48, 56>>

RECURSIVE strip_zeros(_)
\* the digit string without its leading zeros
strip_zeros(ds) == IF ds # <<>> /\ ds[1] = DIGIT0 THEN strip_zeros(Tail(ds)) ELSE ds

\* the longest prefix of s made of decimal digits
digit_prefix(s) ==
    LET bad == { i \in 1..Len(s) : ~IsDigit(s[i]) }
    IN IF bad = {} THEN s ELSE Take(s, (CHOOSE i \in bad : \A j \in bad : i <= j) - 1)

\* checked_mul / checked_add (checked_sub) fail: the number the digits ds
\* spell is greater than the number the digits max spell
overflows(ds, max) ==
    LET a == strip_zeros(ds)
    IN \/ Len(a) > Len(max)
       \/ /\ Len(a) = Len(max)
          /\ \E i \in 1..Len(a) : a[i] > max[i] /\ \A j \in 1..(i - 1) : a[j] = max[j]

\* str::parse::<u64>, with From<ParseIntError> for ParserError.  A leading
\* '+' is accepted, a '-' is an invalid digit.  The digits are taken from
\* left to right: each has to be a digit, and the number read so far has to
\* fit the type, so an overflow in front of a bad character is an overflow.
\* (digits_value is evaluated on numbers below 2^31 only.)
parse_u64(s) ==
    IF s = <<>> THEN PErr(UnparsableValue(IntErrorEmpty))
    ELSE LET ds == IF s[1] = PLUS THEN Tail(s) ELSE s
         IN IF ds = <<>> THEN PErr(UnparsableValue(IntErrorInvalidDigit))
            ELSE IF overflows(digit_prefix(ds), U64_MAX)
            THEN PErr(UnparsableValue(IntErrorPosOverflow))
            ELSE IF \E i \in 1..Len(ds) : ~IsDigit(ds[i])
            THEN PErr(UnparsableValue(IntErrorInvalidDigit))
            ELSE POk(digits_value(ds))

\* str::parse::<i64>: an optional leading '+' or '-'; after '-' the digits
\* are subtracted, and the overflow is "too small"
parse_i64(s) ==
    IF s = <<>> THEN PErr(UnparsableValue(IntErrorEmpty))
    ELSE LET signed == s[1] = PLUS \/ s[1] = MINUS
             ds == IF signed THEN Tail(s) ELSE s
         IN IF ds = <<>> THEN PErr(UnparsableValue(IntErrorInvalidDigit))
            ELSE IF s[1] # MINUS /\ overflows(digit_prefix(ds), I64_MAX)
            THEN PErr(UnparsableValue(IntErrorPosOverflow))
            ELSE IF s[1] = MINUS /\ overflows(digit_prefix(ds), I64_MIN_MAGNITUDE)
            THEN PErr(UnparsableValue(IntErrorNegOverflow))
            ELSE IF \E i \in 1..Len(ds) : ~IsDigit(ds[i])
            THEN PErr(UnparsableValue(IntErrorInvalidDigit))
            ELSE POk(IF s[1] = MINUS THEN 0 - digits_value(ds) ELSE digits_value(ds))

\* FromStr for TxKind
kind_from_str(s) ==
    IF s = <<68, 69, 80, 79, 83, 73, 84>> THEN POk("Deposit")
    ELSE IF s = <<84, 82, 65, 78, 83, 70, 69, 82>> THEN POk("Transfer")
    ELSE IF s = <<87, 73, 84, 72, 68, 82, 65, 87, 65, 76>> THEN POk("Withdrawal")
    ELSE PErr(UnparsableValue(s))

\* FromStr for TxStatus
status_from_str(s) ==
    IF s = <<83, 85, 67, 67, 69, 83, 83>> THEN POk("Success")
    ELSE IF s = <<70, 65, 73, 76, 85, 82, 69>> THEN POk("Failure")
    ELSE IF s = <<80, 69, 78, 68, 73, 78, 71>> THEN POk("Pending")
    ELSE PErr(UnparsableValue(s))

\* FromStr for TxFieldKey
field_key_from_str(s) ==
    IF s = <<84, 88, 95, 73, 68>> THEN POk("Id")
    ELSE IF s = <<84, 88, 95, 84, 89, 80, 69>> THEN POk("TxKind")
    ELSE IF s = <<70, 82, 79, 77, 95, 85, 83, 69, 82, 95, 73, 68>> THEN POk("FromUserId")
    ELSE IF s = <<84, 79, 95, 85, 83, 69, 82, 95, 73, 68>> THEN POk("ToUserId")
    ELSE IF s = <<65, 77, 79, 85, 78, 84>> THEN POk("Amount")
    ELSE IF s = <<84, 73, 77, 69, 83, 84, 65, 77, 80>> THEN POk("Timestamp")
    ELSE IF s = <<83, 84, 65, 84, 85, 83>> THEN POk("Status")
    ELSE IF s = <<68, 69, 83, 67, 82, 73, 80, 84, 73, 79, 78>> THEN POk("Description")
    ELSE PErr(UnparsableKey(s))

\* mutant: one quote character serves as the opening and the closing quote
unquote_shared_quote(value) ==
    IF Len(value) >= 1 /\ value[1] = QUOTE /\ value[Len(value)] = QUOTE
    THEN POk(SubSeq(value, 2, Len(value) - 1))
    ELSE PErr(ShellBeQuoted(value))

\* codecs/utils.rs: strip_prefix('"') and then strip_suffix('"')
unquote(value) ==
    IF Len(value) >= 1 /\ value[1] = QUOTE
    THEN LET s == Tail(value)
         IN IF Len(s) >= 1 /\ s[Len(s)] = QUOTE
            THEN POk(Take(s, Len(s) - 1))
            ELSE PErr(ShellBeQuoted(value))
    ELSE PErr(ShellBeQuoted(value))

(***************************************************************************)
(* Streams.  A reader is a byte sequence and the number of bytes consumed. *)
(* A reader that fails is a byte sequence with IO_ERROR as its last        *)
(* element: it delivers the bytes before it, and the read after them       *)
(* returns an io::Error that is not UnexpectedEof.                         *)
(***************************************************************************)
IO_ERROR == 256

\* the reader fails after the bytes it delivers
Failing(stream) == stream # <<>> /\ stream[Len(stream)] = IO_ERROR

\* the number of bytes the reader delivers
Delivered(stream) == IF Failing(stream) THEN Len(stream) - 1 ELSE Len(stream)

\* Read::read_exact: n bytes; or, when fewer are delivered, the io::Error of
\* the reader or else UnexpectedEof (eof), what is left being consumed all
\* the same
read_exact(stream, cur, n) ==
    IF cur + n <= Delivered(stream)
    THEN [ok |-> TRUE, eof |-> FALSE, bytes |-> SubSeq(stream, cur + 1, cur + n),
          cursor |-> cur + n]
    ELSE [ok |-> FALSE, eof |-> ~Failing(stream), bytes |-> <<>>,
          cursor |-> Delivered(stream)]

RECURSIVE to_be_bytes(_, _)
\* iN::to_be_bytes / uN::to_be_bytes on n bytes; floor division and the
\* non-negative remainder give two's complement for a negative v
to_be_bytes(v, n) ==
    IF n = 0 THEN <<>> ELSE Append(to_be_bytes(v \div 256, n - 1), v % 256)

RECURSIVE from_be_acc(_, _)
from_be_acc(acc, b) ==
    IF b = <<>> THEN acc ELSE from_be_acc(acc * 256 + Head(b), Tail(b))

\* u32::from_be_bytes / u64::from_be_bytes
u_from_be_bytes(b) == from_be_acc(0, b)

\* i64::from_be_bytes: the top bit is the sign
i_from_be_bytes(b) == from_be_acc(IF b[1] >= 128 THEN -1 ELSE 0, b)

IsCont(b) == b >= 128 /\ b <= 191

RECURSIVE utf8_valid(_)
\* the validity check of String::from_utf8 (and of BufRead::lines)
utf8_valid(b) ==
    IF b = <<>> THEN TRUE
    ELSE LET c == b[1]
         IN IF c < 128 THEN utf8_valid(Tail(b))
            ELSE IF c >= 194 /\ c <= 223
            THEN Len(b) >= 2 /\ IsCont(b[2]) /\ utf8_valid(Drop(b, 2))
            ELSE IF c >= 224 /\ c <= 239
            THEN /\ Len(b) >= 3
                 /\ IsCont(b[2]) /\ IsCont(b[3])
                 /\ (c = 224 => b[2] >= 160)
                 /\ (c = 237 => b[2] <= 159)
                 /\ utf8_valid(Drop(b, 3))
            ELSE IF c >= 240 /\ c <= 244
            THEN /\ Len(b) >= 4
                 /\ IsCont(b[2]) /\ IsCont(b[3]) /\ IsCont(b[4])
                 /\ (c = 240 => b[2] >= 144)
                 /\ (c = 244 => b[2] <= 143)
                 /\ utf8_valid(Drop(b, 4))
            ELSE FALSE

(***************************************************************************)
(* Binary codec: codecs/binary.rs.                                         *)
(***************************************************************************)
HexDigit(d) == IF d < 10 THEN DIGIT0 + d ELSE 65 + (d - 10)

RECURSIVE bytes_to_hex(_)
\* format!("{:02X}", b) of every byte, concatenated
bytes_to_hex(bytes) ==
    IF bytes = <<>> THEN <<>>
    ELSE <<HexDigit(Head(bytes) \div 16), HexDigit(Head(bytes) % 16)>>
         \o bytes_to_hex(Tail(bytes))

parse_kind_from_u8(v) ==
    CASE v = 0 -> POk("Deposit")
      [] v = 1 -> POk("Transfer")
      [] v = 2 -> POk("Withdrawal")
      [] OTHER -> PErr(UnparsableValue(u_to_string(v)))

kind_to_u8(v) ==
    CASE v = "Deposit" -> 0
      [] v = "Transfer" -> 1
      [] v = "Withdrawal" -> 2

\* mutant: an unknown status byte falls back to Pending
parse_status_from_u8_with_fallback(v) ==
    CASE v = 0 -> POk("Success")
      [] v = 1 -> POk("Failure")
      [] OTHER -> POk("Pending")

parse_status_from_u8(v) ==
    CASE v = 0 -> POk("Success")
      [] v = 1 -> POk("Failure")
      [] v = 2 -> POk("Pending")
      [] OTHER -> PErr(UnparsableValue(u_to_string(v)))

status_to_u8(v) ==
    CASE v = "Success" -> 0
      [] v = "Failure" -> 1
      [] v = "Pending" -> 2

\* "non utf-8 string"
NonUtf8Message ==
    <<110, 111, 110, 32, 117, 116, 102, 45, 56, 32, 115, 116, 114, 105, 110, 103>>

\* mutant: the declared body length leaves the description out
binary_write_record_fixed_length(rec) ==
    LET desc_bytes == rec.description
        record_bites == 8 + 1 + 8 + 8 + 8 + 8 + 1 + 4
    IN RECORD_MAGIC
       \o to_be_bytes(record_bites, 4)
       \o to_be_bytes(rec.id, 8)
       \o <<kind_to_u8(rec.kind)>>
       \o to_be_bytes(rec.from, 8)
       \o to_be_bytes(rec.to, 8)
       \o to_be_bytes(rec.amount, 8)
       \o to_be_bytes(rec.ts, 8)
       \o <<status_to_u8(rec.status)>>
       \o to_be_bytes(Len(desc_bytes), 4)
       \o desc_bytes

\* BinaryCodec::write, the body of the loop: the byte strings of its eleven
\* write_all calls
binary_write_calls(rec) ==
    LET desc_bytes == rec.description
        record_bites == 8 + 1 + 8 + 8 + 8 + 8 + 1 + 4 + Len(desc_bytes)
    IN << RECORD_MAGIC,
          to_be_bytes(record_bites, 4),
          to_be_bytes(rec.id, 8),
          <<kind_to_u8(rec.kind)>>,
          to_be_bytes(rec.from, 8),
          to_be_bytes(rec.to, 8),
          to_be_bytes(rec.amount, 8),
          to_be_bytes(rec.ts, 8),
          <<status_to_u8(rec.status)>>,
          to_be_bytes(Len(desc_bytes), 4),
          desc_bytes >>

\* BinaryCodec::write, the body of the loop: one frame
binary_write_record(rec) ==
    LET desc_bytes == rec.description
        record_bites == 8 + 1 + 8 + 8 + 8 + 8 + 1 + 4 + Len(desc_bytes)
    IN RECORD_MAGIC
       \o to_be_bytes(record_bites, 4)
       \o to_be_bytes(rec.id, 8)
       \o <<kind_to_u8(rec.kind)>>
       \o to_be_bytes(rec.from, 8)
       \o to_be_bytes(rec.to, 8)
       \o to_be_bytes(rec.amount, 8)
       \o to_be_bytes(rec.ts, 8)
       \o <<status_to_u8(rec.status)>>
       \o to_be_bytes(Len(desc_bytes), 4)
       \o desc_bytes

\* BinaryCodec::parse, lines 109-172: the record body, held in a Cursor, is
\* decoded field by field; p0 is `pos` when the body has been read.
\* Gives [tag |-> "Ok", record, pos] or the AppError returned.
decode_body(record_body, p0) ==
    LET r_id == read_exact(record_body, 0, 8)
        r_kind == read_exact(record_body, r_id.cursor, 1)
        tx_kind == parse_kind_from_u8(r_kind.bytes[1])
        r_from == read_exact(record_body, r_kind.cursor, 8)
        r_to == read_exact(record_body, r_from.cursor, 8)
        r_amount == read_exact(record_body, r_to.cursor, 8)
        r_ts == read_exact(record_body, r_amount.cursor, 8)
        r_status == read_exact(record_body, r_ts.cursor, 1)
        status == parse_status_from_u8(r_status.bytes[1])
        r_len == read_exact(record_body, r_status.cursor, 4)
        desc_len == u_from_be_bytes(r_len.bytes)
        r_desc == read_exact(record_body, r_len.cursor, desc_len)
        p_kind == p0 + 8 + 1
        p_status == p_kind + 8 + 8 + 8 + 8 + 1
        p_len == p_status + 4
        p_end == IF 0 < desc_len THEN p_len + desc_len ELSE p_len
    IN IF ~r_id.ok \/ ~r_kind.ok THEN ReadError
       ELSE IF ~tx_kind.ok
       THEN ParsingError(tx_kind.err, with_position_and_field_key(p_kind, "TxKind"))
       ELSE IF ~r_from.ok \/ ~r_to.ok \/ ~r_amount.ok \/ ~r_ts.ok \/ ~r_status.ok
       THEN ReadError
       ELSE IF ~status.ok
       THEN ParsingError(status.err, with_position_and_field_key(p_status, "Status"))
       ELSE IF ~r_len.ok THEN ReadError
       ELSE IF 0 < desc_len /\ ~r_desc.ok THEN ReadError
       ELSE IF 0 < desc_len /\ ~utf8_valid(r_desc.bytes)
       THEN ParsingError(UnparsableValue(NonUtf8Message),
                         with_position_and_field_key(p_end, "Description"))
       ELSE [tag |-> "Ok",
             pos |-> p_end,
             record |-> TxRecord(u_from_be_bytes(r_id.bytes),
                                 tx_kind.value,
                                 u_from_be_bytes(r_from.bytes),
                                 u_from_be_bytes(r_to.bytes),
                                 i_from_be_bytes(r_amount.bytes),
                                 u_from_be_bytes(r_ts.bytes),
                                 status.value,
                                 IF 0 < desc_len THEN r_desc.bytes ELSE <<>>)]

\* The local state of a parse call, as a record: the steps below map one
\* such state to the next, and the actions apply them to the variables.
Fail(st, e) == [st EXCEPT !.pc = "done", !.outcome = e]
Finish(st) == [st EXCEPT !.pc = "done", !.outcome = Ok(st.result)]

\* BinaryCodec::parse, lines 85-95: the frame signature
binary_read_magic(inp, st) ==
    LET r == read_exact(inp, st.cursor, 4)
        p == st.pos + 4
    IN IF ~r.ok /\ r.eof
       THEN Finish([st EXCEPT !.cursor = r.cursor])           \* UnexpectedEof => break
       ELSE IF ~r.ok
       THEN Fail([st EXCEPT !.cursor = r.cursor], ReadError)  \* Err(e) => ReadError
       ELSE IF RECORD_MAGIC # r.bytes
       THEN Fail([st EXCEPT !.cursor = r.cursor, !.pos = p],
                 ParsingError(InvalidRecordHeader(bytes_to_hex(r.bytes)), with_position(p)))
       ELSE [st EXCEPT !.cursor = r.cursor, !.pos = p, !.pc = "size"]

\* mutant: a stream that ends inside the length field is taken for its end
binary_read_size_eof_breaks(inp, st) ==
    LET r == read_exact(inp, st.cursor, 4)
        size == u_from_be_bytes(r.bytes)
        p == st.pos + 4
    IN IF ~r.ok THEN Finish([st EXCEPT !.cursor = r.cursor])
       ELSE IF MINIMUM_RECORD_SIZE > size
       THEN Fail([st EXCEPT !.cursor = r.cursor, !.pos = p, !.record_size = size],
                 ParsingError(IncompleteRecord, with_position(p)))
       ELSE [st EXCEPT !.cursor = r.cursor, !.pos = p, !.record_size = size, !.pc = "body"]

\* mutant: the length check is off by one (>= for >)
binary_read_size_off_by_one(inp, st) ==
    LET r == read_exact(inp, st.cursor, 4)
        size == u_from_be_bytes(r.bytes)
        p == st.pos + 4
    IN IF ~r.ok THEN Fail([st EXCEPT !.cursor = r.cursor], ReadError)
       ELSE IF MINIMUM_RECORD_SIZE >= size
       THEN Fail([st EXCEPT !.cursor = r.cursor, !.pos = p, !.record_size = size],
                 ParsingError(IncompleteRecord, with_position(p)))
       ELSE [st EXCEPT !.cursor = r.cursor, !.pos = p, !.record_size = size, !.pc = "body"]

\* BinaryCodec::parse, lines 97-102: the declared body length
binary_read_size(inp, st) ==
    LET r == read_exact(inp, st.cursor, 4)
        size == u_from_be_bytes(r.bytes)
        p == st.pos + 4
    IN IF ~r.ok THEN Fail([st EXCEPT !.cursor = r.cursor], ReadError)
       ELSE IF MINIMUM_RECORD_SIZE > size
       THEN Fail([st EXCEPT !.cursor = r.cursor, !.pos = p, !.record_size = size],
                 ParsingError(IncompleteRecord, with_position(p)))
       ELSE [st EXCEPT !.cursor = r.cursor, !.pos = p, !.record_size = size, !.pc = "body"]

\* mutant: a body that does not decode ends the loop and the records decoded
\* so far are returned
binary_read_body_partial_result(inp, st) ==
    LET r == read_exact(inp, st.cursor, st.record_size)
        d == decode_body(r.bytes, st.pos)
    IN IF ~r.ok THEN Fail([st EXCEPT !.cursor = r.cursor], ReadError)
       ELSE IF d.tag # "Ok" THEN Finish([st EXCEPT !.cursor = r.cursor])
       ELSE [st EXCEPT !.cursor = r.cursor, !.pos = d.pos,
                       !.result = Append(st.result, d.record), !.pc = "magic"]

\* BinaryCodec::parse, lines 104-172: the body is read at once and decoded
binary_read_body(inp, st) ==
    LET r == read_exact(inp, st.cursor, st.record_size)
        d == decode_body(r.bytes, st.pos)
    IN IF ~r.ok THEN Fail([st EXCEPT !.cursor = r.cursor], ReadError)
       ELSE IF d.tag # "Ok" THEN Fail([st EXCEPT !.cursor = r.cursor], d)
       ELSE [st EXCEPT !.cursor = r.cursor, !.pos = d.pos,
                       !.result = Append(st.result, d.record), !.pc = "magic"]

(***************************************************************************)
(* Line-oriented input: BufReader::lines, str::trim, str::split.           *)
(***************************************************************************)
RECURSIVE IndexFrom(_, _, _)
\* index of the first b in s at or after position i, 0 when there is none
IndexFrom(s, b, i) ==
    IF i > Len(s) THEN 0 ELSE IF s[i] = b THEN i ELSE IndexFrom(s, b, i + 1)

\* BufRead::lines, one call of next: the bytes up to the next '\n', without
\* the "\n" or "\r\n" that ends them; none when no byte is left; an io::Error
\* when the line is not UTF-8 (InvalidData) or when the reader fails before
\* the line has ended
next_line(stream, cur) ==
    IF cur >= Delivered(stream)
    THEN [some |-> Failing(stream), ok |-> ~Failing(stream), line |-> <<>>, cursor |-> cur]
    ELSE LET nl == IndexFrom(stream, LF, cur + 1)
             last == IF nl = 0 THEN Delivered(stream) ELSE nl - 1
             raw == SubSeq(stream, cur + 1, last)
             line == IF nl # 0 /\ raw # <<>> /\ raw[Len(raw)] = CR
                     THEN Take(raw, Len(raw) - 1) ELSE raw
         IN [some |-> TRUE,
             ok |-> utf8_valid(raw) /\ ~(nl = 0 /\ Failing(stream)),
             line |-> line,
             cursor |-> IF nl = 0 THEN Delivered(stream) ELSE nl]

\* the number of bytes of the character whose first byte is b
lead_len(b) == IF b < 192 THEN 1 ELSE IF b < 224 THEN 2 ELSE IF b < 240 THEN 3 ELSE 4

RECURSIVE cont_value(_, _)
\* the code point: six bits of each continuation byte after those of the
\* first byte
cont_value(acc, bs) ==
    IF bs = <<>> THEN acc ELSE cont_value(acc * 64 + (bs[1] - 128), Tail(bs))

\* the character of n bytes the string s starts with: its code point and the
\* number of its bytes (cp = -1, one byte, when the bytes are not a character)
char_of(s, n) ==
    IF s[1] < 128 THEN [cp |-> s[1], len |-> 1]
    ELSE IF s[1] >= 194 /\ s[1] <= 244 /\ n <= Len(s) /\ \A i \in 2..n : IsCont(s[i])
    THEN [cp |-> cont_value(s[1] - (IF n = 2 THEN 192 ELSE IF n = 3 THEN 224 ELSE 240),
                            SubSeq(s, 2, n)),
          len |-> n]
    ELSE [cp |-> -1, len |-> 1]

\* the character a string starts with
first_char(s) == char_of(s, lead_len(s[1]))

RECURSIVE char_start(_, _)
\* where the character that holds the i-th byte of s starts
char_start(s, i) == IF i > 1 /\ IsCont(s[i]) THEN char_start(s, i - 1) ELSE i

\* the character the last k bytes of s are, if they are one
char_at_end(s, k) ==
    IF lead_len(s[Len(s) - k + 1]) = k
    THEN char_of(SubSeq(s, Len(s) - k + 1, Len(s)), k) ELSE [cp |-> -1, len |-> 1]

\* the character a string ends with
last_char(s) == char_at_end(s, Len(s) - char_start(s, Len(s)) + 1)

\* the code points with the Unicode property White_Space
White_Space ==
    (9..13) \cup {SPACE, 133, 160, 5760} \cup (8192..8202)
    \cup {8232, 8233, 8239, 8287, 12288}

\* char::is_whitespace
IsWhitespace(c) == c \in White_Space

\* U+00A0 NO-BREAK SPACE and U+3000 IDEOGRAPHIC SPACE, as UTF-8
NBSP == <<194, 160>>
IDEOGRAPHIC_SPACE == <<227, 128, 128>>

\* s without its first character c when c is white space
skip_whitespace(s, c) == IF IsWhitespace(c.cp) THEN Drop(s, c.len) ELSE s

\* s without its last character c when c is white space
drop_whitespace(s, c) == IF IsWhitespace(c.cp) THEN Take(s, Len(s) - c.len) ELSE s

RECURSIVE trim_until(_, _, _)
\* one character is taken off the start (at_start) or the end of s as long
\* as it is white space: t is s without it
trim_until(s, t, at_start) ==
    IF t = s THEN s
    ELSE IF t = <<>> THEN t
    ELSE trim_until(t, IF at_start THEN skip_whitespace(t, first_char(t))
                       ELSE drop_whitespace(t, last_char(t)), at_start)

\* str::trim_start: the leading White_Space characters are dropped
trim_start(s) ==
    IF s = <<>> THEN s ELSE trim_until(s, skip_whitespace(s, first_char(s)), TRUE)

\* str::trim_end: the trailing White_Space characters are dropped
trim_end(s) ==
    IF s = <<>> THEN s ELSE trim_until(s, drop_whitespace(s, last_char(s)), FALSE)

\* str::trim
trim(s) == trim_end(trim_start(s))

RECURSIVE split(_, _)
\* str::split(delimiter).collect(): never empty, "" gives [""]
split(s, d) ==
    LET i == IndexFrom(s, d, 1)
    IN IF i = 0 THEN <<s>> ELSE <<Take(s, i - 1)>> \o split(Drop(s, i), d)

\* str::split_once(delimiter): at the first occurrence
split_once(s, d) ==
    LET i == IndexFrom(s, d, 1)
    IN IF i = 0 THEN [some |-> FALSE]
       ELSE [some |-> TRUE, key |-> Take(s, i - 1), value |-> Drop(s, i)]

(***************************************************************************)
(* Text codec: codecs/text.rs.                                             *)
(***************************************************************************)
None == [some |-> FALSE]
Some(v) == [some |-> TRUE, value |-> v]

\* RecordBuilder::new
RecordBuilder_new ==
    [is_dirty |-> FALSE, id |-> None, kind |-> None, from |-> None, to |-> None,
     amount |-> None, ts |-> None, status |-> None, description |-> None]

\* mutant: only TX_ID is looked up
is_key_already_present_id_only(b, field_key) == field_key = "Id" /\ b.id.some

\* RecordBuilder::is_key_already_present
is_key_already_present(b, field_key) ==
    CASE field_key = "Id" -> b.id.some
      [] field_key = "TxKind" -> b.kind.some
      [] field_key = "FromUserId" -> b.from.some
      [] field_key = "ToUserId" -> b.to.some
      [] field_key = "Amount" -> b.amount.some
      [] field_key = "Timestamp" -> b.ts.some
      [] field_key = "Status" -> b.status.some
      [] field_key = "Description" -> b.description.some

\* the value parser that set_field_value applies to the field
parse_field_value(field_key, value) ==
    CASE field_key = "Id" -> parse_u64(value)
      [] field_key = "TxKind" -> kind_from_str(value)
      [] field_key = "FromUserId" -> parse_u64(value)
      [] field_key = "ToUserId" -> parse_u64(value)
      [] field_key = "Amount" -> parse_i64(value)
      [] field_key = "Timestamp" -> parse_u64(value)
      [] field_key = "Status" -> status_from_str(value)
      [] field_key = "Description" -> unquote(value)

\* mutant: TX_ID opens the record, so whatever was set before it is dropped
set_field_value_id_opens_record(b, field_key, value) ==
    IF is_key_already_present(b, field_key) THEN PErr(Duplicate(field_key))
    ELSE LET v == parse_field_value(field_key, value)
             d == [(IF field_key = "Id" THEN RecordBuilder_new ELSE b) EXCEPT !.is_dirty = TRUE]
         IN IF ~v.ok THEN PErr(v.err)
            ELSE POk(CASE field_key = "Id" -> [d EXCEPT !.id = Some(v.value)]
                       [] field_key = "TxKind" -> [d EXCEPT !.kind = Some(v.value)]
                       [] field_key = "FromUserId" -> [d EXCEPT !.from = Some(v.value)]
                       [] field_key = "ToUserId" -> [d EXCEPT !.to = Some(v.value)]
                       [] field_key = "Amount" -> [d EXCEPT !.amount = Some(v.value)]
                       [] field_key = "Timestamp" -> [d EXCEPT !.ts = Some(v.value)]
                       [] field_key = "Status" -> [d EXCEPT !.status = Some(v.value)]
                       [] field_key = "Description" -> [d EXCEPT !.description = Some(v.value)])

\* mutant: the value is parsed before the key is looked up in the builder
set_field_value_value_first(b, field_key, value) ==
    LET v == parse_field_value(field_key, value)
        d == [b EXCEPT !.is_dirty = TRUE]
    IN IF ~v.ok THEN PErr(v.err)
       ELSE IF is_key_already_present(b, field_key) THEN PErr(Duplicate(field_key))
       ELSE POk(CASE field_key = "Id" -> [d EXCEPT !.id = Some(v.value)]
                  [] field_key = "TxKind" -> [d EXCEPT !.kind = Some(v.value)]
                  [] field_key = "FromUserId" -> [d EXCEPT !.from = Some(v.value)]
                  [] field_key = "ToUserId" -> [d EXCEPT !.to = Some(v.value)]
                  [] field_key = "Amount" -> [d EXCEPT !.amount = Some(v.value)]
                  [] field_key = "Timestamp" -> [d EXCEPT !.ts = Some(v.value)]
                  [] field_key = "Status" -> [d EXCEPT !.status = Some(v.value)]
                  [] field_key = "Description" -> [d EXCEPT !.description = Some(v.value)])

\* RecordBuilder::set_field_value: [ok, builder] or [ok, err]
set_field_value(b, field_key, value) ==
    IF is_key_already_present(b, field_key) THEN PErr(Duplicate(field_key))
    ELSE LET v == parse_field_value(field_key, value)
             d == [b EXCEPT !.is_dirty = TRUE]
         IN IF ~v.ok THEN PErr(v.err)
            ELSE POk(CASE field_key = "Id" -> [d EXCEPT !.id = Some(v.value)]
                       [] field_key = "TxKind" -> [d EXCEPT !.kind = Some(v.value)]
                       [] field_key = "FromUserId" -> [d EXCEPT !.from = Some(v.value)]
                       [] field_key = "ToUserId" -> [d EXCEPT !.to = Some(v.value)]
                       [] field_key = "Amount" -> [d EXCEPT !.amount = Some(v.value)]
                       [] field_key = "Timestamp" -> [d EXCEPT !.ts = Some(v.value)]
                       [] field_key = "Status" -> [d EXCEPT !.status = Some(v.value)]
                       [] field_key = "Description" -> [d EXCEPT !.description = Some(v.value)])

\* mutant: a line without ':' is reported as an unknown key
parse_field_from_line_no_delimiter_is_key(b, line) ==
    LET kv == split_once(line, FIELD_KV_DELIMITER)
        field_key == field_key_from_str(trim(kv.key))
    IN IF ~kv.some THEN PErr(UnparsableKey(line))
       ELSE IF ~field_key.ok THEN PErr(field_key.err)
       ELSE set_field_value(b, field_key.value, trim(kv.value))

\* RecordBuilder::parse_field_from_line
parse_field_from_line(b, line) ==
    LET kv == split_once(line, FIELD_KV_DELIMITER)
        field_key == field_key_from_str(trim(kv.key))
    IN IF ~kv.some THEN PErr(NoFieldDelimiter)
       ELSE IF ~field_key.ok THEN PErr(field_key.err)
       ELSE set_field_value(b, field_key.value, trim(kv.value))

\* mutant: the fields are looked up from the last to the first
finalize_reverse_order(b) ==
    IF ~b.description.some THEN PErr(MissingField("Description"))
    ELSE IF ~b.status.some THEN PErr(MissingField("Status"))
    ELSE IF ~b.ts.some THEN PErr(MissingField("Timestamp"))
    ELSE IF ~b.amount.some THEN PErr(MissingField("Amount"))
    ELSE IF ~b.to.some THEN PErr(MissingField("ToUserId"))
    ELSE IF ~b.from.some THEN PErr(MissingField("FromUserId"))
    ELSE IF ~b.kind.some THEN PErr(MissingField("TxKind"))
    ELSE IF ~b.id.some THEN PErr(MissingField("Id"))
    ELSE POk(TxRecord(b.id.value, b.kind.value, b.from.value, b.to.value,
                      b.amount.value, b.ts.value, b.status.value, b.description.value))

\* RecordBuilder::finalize: the first unset field, in the order of the
\* struct literal, is the one reported
finalize(b) ==
    IF ~b.id.some THEN PErr(MissingField("Id"))
    ELSE IF ~b.kind.some THEN PErr(MissingField("TxKind"))
    ELSE IF ~b.from.some THEN PErr(MissingField("FromUserId"))
    ELSE IF ~b.to.some THEN PErr(MissingField("ToUserId"))
    ELSE IF ~b.amount.some THEN PErr(MissingField("Amount"))
    ELSE IF ~b.ts.some THEN PErr(MissingField("Timestamp"))
    ELSE IF ~b.status.some THEN PErr(MissingField("Status"))
    ELSE IF ~b.description.some THEN PErr(MissingField("Description"))
    ELSE POk(TxRecord(b.id.value, b.kind.value, b.from.value, b.to.value,
                      b.amount.value, b.ts.value, b.status.value, b.description.value))

\* TextCodec::write_kv_pair: writeln!("{}{} {}", key, ':', value), the byte
\* strings write_fmt hands to write_all: each argument, the text between
\* the arguments, and the line feed
write_kv_calls(field_key, field_value) ==
    <<field_key_to_string(field_key), <<FIELD_KV_DELIMITER>>, <<SPACE>>, field_value, <<LF>>>>

\* TextCodec::write_kv_pair: the line
write_kv_pair(field_key, field_value) ==
    field_key_to_string(field_key) \o <<FIELD_KV_DELIMITER, SPACE>> \o field_value \o <<LF>>

\* TextCodec::write_single_record
text_write_single_record(tx) ==
    write_kv_pair("Id", u_to_string(tx.id))
    \o write_kv_pair("TxKind", kind_to_string(tx.kind))
    \o write_kv_pair("FromUserId", u_to_string(tx.from))
    \o write_kv_pair("ToUserId", u_to_string(tx.to))
    \o write_kv_pair("Amount", i_to_string(tx.amount))
    \o write_kv_pair("Timestamp", u_to_string(tx.ts))
    \o write_kv_pair("Status", status_to_string(tx.status))
    \o write_kv_pair("Description", <<QUOTE>> \o tx.description \o <<QUOTE>>)

\* mutant: no blank line after the record
text_write_record_no_blank_line(tx) == text_write_single_record(tx)

\* TextCodec::write, the body of the loop: the record and a blank line
text_write_record(tx) == text_write_single_record(tx) \o <<LF>>

\* TextCodec::write, the body of the loop: the byte strings of its write_all
\* calls, those of the eight write_kv_pair and the one of writeln!(w)
text_write_calls(tx) ==
    write_kv_calls("Id", u_to_string(tx.id))
    \o write_kv_calls("TxKind", kind_to_string(tx.kind))
    \o write_kv_calls("FromUserId", u_to_string(tx.from))
    \o write_kv_calls("ToUserId", u_to_string(tx.to))
    \o write_kv_calls("Amount", i_to_string(tx.amount))
    \o write_kv_calls("Timestamp", u_to_string(tx.ts))
    \o write_kv_calls("Status", status_to_string(tx.status))
    \o write_kv_calls("Description", <<QUOTE>> \o tx.description \o <<QUOTE>>)
    \o << <<LF>> >>

\* mutant: the builder is not replaced by a new one when a record is closed
text_close_record_keeps_builder(st, n, raw) ==
    LET f == finalize(st.builder)
        s == [st EXCEPT !.line_num = n, !.input_line = raw]
    IN IF ~st.builder.is_dirty THEN s
       ELSE IF ~f.ok
       THEN Fail(s, ParsingError(f.err, with_line_number_and_line(n, raw)))
       ELSE [s EXCEPT !.result = Append(st.result, f.value)]

\* TextCodec::parse, lines 164-173: a blank line closes the record
text_close_record(st, n, raw) ==
    LET f == finalize(st.builder)
        s == [st EXCEPT !.line_num = n, !.input_line = raw]
    IN IF ~st.builder.is_dirty THEN [s EXCEPT !.builder = RecordBuilder_new]
       ELSE IF ~f.ok
       THEN Fail(s, ParsingError(f.err, with_line_number_and_line(n, raw)))
       ELSE [s EXCEPT !.result = Append(st.result, f.value),
                      !.builder = RecordBuilder_new]

\* mutant: a comment line is taken for a blank line and closes the record
text_parse_line_comment_closes(inp, st) ==
    LET nl == next_line(inp, st.cursor)
        n == st.line_num + 1
        line == trim(nl.line)
        f == parse_field_from_line(st.builder, line)
        s == [st EXCEPT !.cursor = nl.cursor, !.line_num = n]
    IN IF ~nl.ok THEN Fail(s, ReadError)
       ELSE IF line = <<>> \/ line[1] = COMMENT_SYMBOL_1LINE
       THEN text_close_record(s, n, nl.line)
       ELSE IF ~f.ok
       THEN Fail([s EXCEPT !.input_line = nl.line],
                 ParsingError(f.err, with_line_number_and_line(n, nl.line)))
       ELSE [s EXCEPT !.input_line = nl.line, !.builder = f.value]

\* TextCodec::parse, lines 151-177: one turn of the loop over the lines
text_parse_line(inp, st) ==
    LET nl == next_line(inp, st.cursor)
        n == st.line_num + 1
        line == trim(nl.line)
        f == parse_field_from_line(st.builder, line)
        s == [st EXCEPT !.cursor = nl.cursor, !.line_num = n]
    IN IF ~nl.ok THEN Fail(s, ReadError)
       ELSE IF line # <<>> /\ line[1] = COMMENT_SYMBOL_1LINE
       THEN [s EXCEPT !.input_line = nl.line]
       ELSE IF line = <<>> THEN text_close_record(s, n, nl.line)
       ELSE IF ~f.ok
       THEN Fail([s EXCEPT !.input_line = nl.line],
                 ParsingError(f.err, with_line_number_and_line(n, nl.line)))
       ELSE [s EXCEPT !.input_line = nl.line, !.builder = f.value]

\* TextCodec::parse, lines 179-185: the end of the input closes the record
text_parse_end(st) ==
    LET f == finalize(st.builder)
    IN IF ~st.builder.is_dirty THEN Finish(st)
       ELSE IF ~f.ok
       THEN Fail(st, ParsingError(f.err, with_line_number_and_line(st.line_num, st.input_line)))
       ELSE Finish([st EXCEPT !.result = Append(st.result, f.value)])

(***************************************************************************)
(* CSV codec: codecs/csv.rs.                                               *)
(***************************************************************************)
\* "TX_ID,TX_TYPE,FROM_USER_ID,TO_USER_ID,AMOUNT,TIMESTAMP,STATUS,DESCRIPTION"
HEADER_SIGNATURE ==
    <<84, 88, 95, 73, 68, 44, 84, 88, 95, 84, 89, 80, 69, 44, 70, 82, 79, 77,
      95, 85, 83, 69, 82, 95, 73, 68, 44, 84, 79, 95, 85, 83, 69, 82, 95, 73,
      68, 44, 65, 77, 79, 85, 78, 84, 44, 84, 73, 77, 69, 83, 84, 65, 77, 80,
      44, 83, 84, 65, 84, 85, 83, 44, 68, 69, 83, 67, 82, 73, 80, 84, 73, 79, 78>>

FIELDS_COUNT == 8

\* the column indices TX_ID .. DESCRIPTION of csv.rs, from 1 as sequences are
Column(field_key) ==
    CASE field_key = "Id" -> 1
      [] field_key = "TxKind" -> 2
      [] field_key = "FromUserId" -> 3
      [] field_key = "ToUserId" -> 4
      [] field_key = "Amount" -> 5
      [] field_key = "Timestamp" -> 6
      [] field_key = "Status" -> 7
      [] field_key = "Description" -> 8

\* mutant: tokens beyond the eighth are ignored
parse_csv_line_extra_tokens_ignored(line) ==
    LET raw == split(line, CSV_DELIMITER)
        values == [i \in 1..Len(raw) |-> trim(raw[i])]
        id == parse_u64(values[Column("Id")])
        kind == kind_from_str(values[Column("TxKind")])
        from == parse_u64(values[Column("FromUserId")])
        to == parse_u64(values[Column("ToUserId")])
        amount == parse_i64(values[Column("Amount")])
        ts == parse_u64(values[Column("Timestamp")])
        status == status_from_str(values[Column("Status")])
        description == unquote(values[Column("Description")])
    IN IF Len(values) < FIELDS_COUNT THEN PErr(IncompleteRecord)
       ELSE IF ~id.ok THEN PErr(id.err)
       ELSE IF ~kind.ok THEN PErr(kind.err)
       ELSE IF ~from.ok THEN PErr(from.err)
       ELSE IF ~to.ok THEN PErr(to.err)
       ELSE IF ~amount.ok THEN PErr(amount.err)
       ELSE IF ~ts.ok THEN PErr(ts.err)
       ELSE IF ~status.ok THEN PErr(status.err)
       ELSE IF ~description.ok THEN PErr(description.err)
       ELSE POk(TxRecord(id.value, kind.value, from.value, to.value, amount.value,
                         ts.value, status.value, description.value))

\* CsvCodec::parse_csv_line
parse_csv_line(line) ==
    LET raw == split(line, CSV_DELIMITER)
        values == [i \in 1..Len(raw) |-> trim(raw[i])]
        id == parse_u64(values[Column("Id")])
        kind == kind_from_str(values[Column("TxKind")])
        from == parse_u64(values[Column("FromUserId")])
        to == parse_u64(values[Column("ToUserId")])
        amount == parse_i64(values[Column("Amount")])
        ts == parse_u64(values[Column("Timestamp")])
        status == status_from_str(values[Column("Status")])
        description == unquote(values[Column("Description")])
    IN IF Len(values) # FIELDS_COUNT THEN PErr(IncompleteRecord)
       ELSE IF ~id.ok THEN PErr(id.err)
       ELSE IF ~kind.ok THEN PErr(kind.err)
       ELSE IF ~from.ok THEN PErr(from.err)
       ELSE IF ~to.ok THEN PErr(to.err)
       ELSE IF ~amount.ok THEN PErr(amount.err)
       ELSE IF ~ts.ok THEN PErr(ts.err)
       ELSE IF ~status.ok THEN PErr(status.err)
       ELSE IF ~description.ok THEN PErr(description.err)
       ELSE POk(TxRecord(id.value, kind.value, from.value, to.value, amount.value,
                         ts.value, status.value, description.value))

RECURSIVE join(_, _)
\* [String]::join(separator)
join(values, d) ==
    IF values = <<>> THEN <<>>
    ELSE IF Len(values) = 1 THEN values[1]
    ELSE values[1] \o <<d>> \o join(Tail(values), d)

\* mutant: the description is written without its quotes
csv_write_single_record_unquoted(tx) ==
    join(<<u_to_string(tx.id), kind_to_string(tx.kind), u_to_string(tx.from),
           u_to_string(tx.to), i_to_string(tx.amount), u_to_string(tx.ts),
           status_to_string(tx.status), tx.description>>,
         CSV_DELIMITER) \o <<LF>>

\* CsvCodec::write_single_record
csv_write_single_record(tx) ==
    join(<<u_to_string(tx.id), kind_to_string(tx.kind), u_to_string(tx.from),
           u_to_string(tx.to), i_to_string(tx.amount), u_to_string(tx.ts),
           status_to_string(tx.status), <<QUOTE>> \o tx.description \o <<QUOTE>>>>,
         CSV_DELIMITER) \o <<LF>>

\* CsvCodec::write, line 100: the header line
csv_write_header == HEADER_SIGNATURE \o <<LF>>

\* writeln!(w, "{}", s), lines 60 and 100: the byte strings write_fmt hands
\* to write_all for the line s and its line feed: the argument, then the
\* line feed
writeln_calls(line) == <<Take(line, Len(line) - 1), <<LF>>>>

\* mutant: the header is compared after trimming
csv_parse_header_trimmed(inp, st) ==
    LET nl == next_line(inp, st.cursor)
        s == [st EXCEPT !.cursor = nl.cursor, !.pc = "rows"]
    IN IF ~nl.some THEN s
       ELSE IF ~nl.ok THEN Fail(s, ReadError)
       ELSE IF HEADER_SIGNATURE # trim(nl.line)
       THEN Fail([s EXCEPT !.input_line = nl.line],
                 ParsingError(InvalidFileHeader, with_line_number_and_line(0, nl.line)))
       ELSE [s EXCEPT !.input_line = nl.line, !.line_num = 1]

\* CsvCodec::parse, lines 67-77: the header, line 0 of enumerate(); an input
\* without any line passes the check
csv_parse_header(inp, st) ==
    LET nl == next_line(inp, st.cursor)
        s == [st EXCEPT !.cursor = nl.cursor, !.pc = "rows"]
    IN IF ~nl.some THEN s
       ELSE IF ~nl.ok THEN Fail(s, ReadError)
       ELSE IF HEADER_SIGNATURE # nl.line
       THEN Fail([s EXCEPT !.input_line = nl.line],
                 ParsingError(InvalidFileHeader, with_line_number_and_line(0, nl.line)))
       ELSE [s EXCEPT !.input_line = nl.line, !.line_num = 1]

\* mutant: the lines are numbered from 1, as the text codec numbers them
csv_parse_row_one_based(inp, st) ==
    LET nl == next_line(inp, st.cursor)
        r == parse_csv_line(trim(nl.line))
        s == [st EXCEPT !.cursor = nl.cursor, !.input_line = nl.line]
    IN IF ~nl.ok THEN Fail([st EXCEPT !.cursor = nl.cursor], ReadError)
       ELSE IF ~r.ok
       THEN Fail(s, ParsingError(r.err, with_line_number_and_line(st.line_num + 1, nl.line)))
       ELSE [s EXCEPT !.result = Append(st.result, r.value),
                      !.line_num = st.line_num + 1]

\* CsvCodec::parse, lines 80-93: one row; line_num is the index enumerate()
\* gives to the line read
csv_parse_row(inp, st) ==
    LET nl == next_line(inp, st.cursor)
        r == parse_csv_line(trim(nl.line))
        s == [st EXCEPT !.cursor = nl.cursor, !.input_line = nl.line]
    IN IF ~nl.ok THEN Fail([st EXCEPT !.cursor = nl.cursor], ReadError)
       ELSE IF ~r.ok
       THEN Fail(s, ParsingError(r.err, with_line_number_and_line(st.line_num, nl.line)))
       ELSE [s EXCEPT !.result = Append(st.result, r.value),
                      !.line_num = st.line_num + 1]

\* CsvCodec::parse, line 95, and the exit of the loops: Ok(result)
parse_end(st) == Finish(st)

(***************************************************************************)
(* Whole parse calls, as the iteration of the steps above.                 *)
(***************************************************************************)
ParseStart(c) ==
    CASE c = "binary" -> "magic"
      [] c = "text" -> "line"
      [] c = "csv" -> "header"

\* the local state at the entry of parse
ParseInit(c) ==
    [pc |-> ParseStart(c), cursor |-> 0, pos |-> 0, line_num |-> 0,
     input_line |-> <<>>, builder |-> RecordBuilder_new, record_size |-> 0,
     result |-> <<>>, outcome |-> Running]

\* one step of parse from the local state st
ParseStep(c, inp, st) ==
    CASE st.pc = "magic" -> binary_read_magic(inp, st)
      [] st.pc = "size" -> binary_read_size(inp, st)
      [] st.pc = "body" -> binary_read_body(inp, st)
      [] st.pc = "line" -> IF next_line(inp, st.cursor).some
                           THEN text_parse_line(inp, st) ELSE text_parse_end(st)
      [] st.pc = "header" -> csv_parse_header(inp, st)
      [] st.pc = "rows" -> IF next_line(inp, st.cursor).some
                           THEN csv_parse_row(inp, st) ELSE parse_end(st)

RECURSIVE ParseRun(_, _, _)
ParseRun(c, inp, st) ==
    IF st.pc = "done" THEN st ELSE ParseRun(c, inp, ParseStep(c, inp, st))

\* DataParser::parse of codec c on the stream inp: the Result returned
Parse(c, inp) == ParseRun(c, inp, ParseInit(c)).outcome

\* the bytes one turn of the write loop of codec c emits for a record
WriteRecordBytes(c, tx) ==
    CASE c = "binary" -> binary_write_record(tx)
      [] c = "text" -> text_write_record(tx)
      [] c = "csv" -> csv_write_single_record(tx)
      [] c = "dummy" -> <<>>                        \* DummyCodec::write writes nothing

\* the byte strings of the write_all calls one turn of the write loop of
\* codec c makes for a record
WriteCalls(c, tx) ==
    CASE c = "binary" -> binary_write_calls(tx)
      [] c = "text" -> text_write_calls(tx)
      [] c = "csv" -> writeln_calls(csv_write_single_record(tx))
      [] c = "dummy" -> <<>>

RECURSIVE WriteRecords(_, _)
WriteRecords(c, recs) ==
    IF recs = <<>> THEN <<>>
    ELSE WriteRecordBytes(c, Head(recs)) \o WriteRecords(c, Tail(recs))

\* DataWriter::write of codec c: the bytes written for the records recs
Write(c, recs) ==
    (IF c = "csv" THEN csv_write_header ELSE <<>>) \o WriteRecords(c, recs)

(***************************************************************************)
(* The records and the inputs of the runs.                                 *)
(***************************************************************************)
Codecs == {"binary", "text", "csv"}

\* sample_tx of tests/binary_tests.rs: description "payment"
sample_tx ==
    TxRecord(1, "Transfer", 11, 22, -500, 1700000, "Pending",
             <<112, 97, 121, 109, 101, 110, 116>>)

\* RECORD_1 of tests/text_tests.rs: description "Salary"
RECORD_1 ==
    TxRecord(1, "Deposit", 0, 100, 500, 1700, "Success", <<83, 97, 108, 97, 114, 121>>)

Records ==
    { sample_tx,
      TxRecord(2, "Deposit", 0, 3, 99, 1700, "Success", <<>>),
      \* description: a"b: #c
      TxRecord(7, "Withdrawal", 11, 0, 0, 0, "Failure", <<97, 34, 98, 58, 32, 35, 99>>),
      \* description: a,b
      TxRecord(3, "Deposit", 5, 6, 10, 1800, "Failure", <<97, 44, 98>>),
      \* description: a, line feed, b
      TxRecord(4, "Transfer", 100, 101, -1, 1900, "Success", <<97, LF, 98>>),
      \* description: space, e with acute accent, space
      TxRecord(260, "Withdrawal", 65536, 1, 70000, 16777217, "Pending", <<32, 195, 169, 32>>) }

\* encode_record of tests/binary_tests.rs: a frame whose declared body
\* length and magic may be overridden (override < 0: the true length)
encode_record(kind, status, desc, override_record_size, magic) ==
    LET body == to_be_bytes(1, 8) \o <<kind>> \o to_be_bytes(10, 8) \o to_be_bytes(20, 8)
                \o to_be_bytes(100, 8) \o to_be_bytes(1234, 8) \o <<status>>
                \o to_be_bytes(Len(desc), 4) \o desc
        size == IF override_record_size < 0 THEN Len(body) ELSE override_record_size
    IN magic \o to_be_bytes(size, 4) \o body

DescOk == <<111, 107>>          \* "ok"
MagicNope == <<78, 79, 80, 69>> \* "NOPE"

\* the frames of the hand-made binary inputs
BinaryFrames ==
    { encode_record(0, 0, DescOk, -1, RECORD_MAGIC),
      encode_record(2, 2, <<>>, -1, RECORD_MAGIC),
      encode_record(0, 0, DescOk, -1, MagicNope),
      encode_record(0, 0, <<>>, 45, RECORD_MAGIC),
      encode_record(0, 0, <<>>, 29, RECORD_MAGIC),
      encode_record(0, 0, <<>>, 28, RECORD_MAGIC),
      encode_record(9, 0, DescOk, -1, RECORD_MAGIC),
      encode_record(0, 9, DescOk, -1, RECORD_MAGIC),
      encode_record(3, 255, DescOk, -1, RECORD_MAGIC),
      encode_record(2, 3, <<>>, -1, RECORD_MAGIC),
      encode_record(0, 0, <<255, 255>>, -1, RECORD_MAGIC),
      \* a body longer than its fields: three unused bytes after the description
      encode_record(1, 1, DescOk, 51, RECORD_MAGIC) \o <<0, 0, 0>>,
      \* a description length that overruns the declared body
      encode_record(0, 0, DescOk, 46, RECORD_MAGIC),
      \* the same frame without the two bytes of its description: the whole
      \* declared body is there and the description length 2 overruns it
      Take(encode_record(0, 0, DescOk, 46, RECORD_MAGIC), 54) }

\* how many bytes of the last frame of an input are kept
Keeps(frame) == {1, 2, 3, 4, 6, 8, 30, Len(frame) - 1, Len(frame)}

BinaryInputs ==
    {<<>>} \cup
    { Concat(SubSeq(fs, 1, Len(fs) - 1)) \o Take(fs[Len(fs)], k) :
        <<fs, k>> \in { x \in (SeqsUpTo(BinaryFrames, MaxFrames) \ {<<>>}) \X (1..60) :
                          x[2] \in Keeps(x[1][Len(x[1])]) } }

FieldLine(field_key, value) ==
    field_key_to_string(field_key) \o <<FIELD_KV_DELIMITER, SPACE>> \o value

Quoted(s) == <<QUOTE>> \o s \o <<QUOTE>>

\* the eight lines of a record, in the order the writer emits them
Lines(tx) ==
    << FieldLine("Id", u_to_string(tx.id)),
       FieldLine("TxKind", kind_to_string(tx.kind)),
       FieldLine("FromUserId", u_to_string(tx.from)),
       FieldLine("ToUserId", u_to_string(tx.to)),
       FieldLine("Amount", i_to_string(tx.amount)),
       FieldLine("Timestamp", u_to_string(tx.ts)),
       FieldLine("Status", status_to_string(tx.status)),
       FieldLine("Description", Quoted(tx.description)) >>

Reverse(s) == [i \in 1..Len(s) |-> s[Len(s) + 1 - i]]
ReplaceAt(s, i, x) == [s EXCEPT ![i] = x]
RemoveAt(s, i) == Take(s, i - 1) \o Drop(s, i)
InsertAt(s, i, x) == Take(s, i - 1) \o <<x>> \o Drop(s, i - 1)

\* "# first record"
CommentLine == <<35, 32, 102, 105, 114, 115, 116, 32, 114, 101, 99, 111, 114, 100>>

\* the blocks of the hand-made text inputs
TextBlocks ==
    { Lines(RECORD_1),
      Reverse(Lines(sample_tx)),
      InsertAt(Lines(sample_tx), 4, CommentLine),
      RemoveAt(Lines(RECORD_1), 7),
      InsertAt(Lines(RECORD_1), 3, FieldLine("Id", <<50>>)),
      ReplaceAt(Lines(RECORD_1), 4, <<84, 88, 95, 73, 68, 32, 49>>),                  \* TX_ID 1
      ReplaceAt(Lines(RECORD_1), 1, <<116, 120, 95, 105, 100, 58, 32, 49>>),          \* tx_id: 1
      ReplaceAt(Lines(RECORD_1), 2,
                FieldLine("TxKind", <<100, 101, 112, 111, 115, 105, 116>>)),          \* deposit
      ReplaceAt(Lines(RECORD_1), 7,
                FieldLine("Status", <<83, 117, 99, 99, 101, 115, 115>>)),             \* Success
      ReplaceAt(Lines(RECORD_1), 8, FieldLine("Description", RECORD_1.description)),
      ReplaceAt(Lines(RECORD_1), 5, FieldLine("Amount", <<49, 50, 120>>)) }           \* 12x

RECURSIVE JoinLines(_)
\* every line followed by a line feed
JoinLines(ls) == IF ls = <<>> THEN <<>> ELSE Head(ls) \o <<LF>> \o JoinLines(Tail(ls))

RECURSIVE JoinBlocks(_, _)
\* the blocks, each followed by the separator sep
JoinBlocks(bs, sep) ==
    IF bs = <<>> THEN <<>> ELSE JoinLines(Head(bs)) \o sep \o JoinBlocks(Tail(bs), sep)

\* as the writer separates them, or with two blank lines and the last line
\* of the input not ended
TextInputs ==
    LET bss == SeqsUpTo(TextBlocks, MaxFrames)
    IN { JoinBlocks(bs, <<LF>>) : bs \in bss }
       \cup { LET t == JoinBlocks(bs, <<LF, LF>>) IN Take(t, Len(t) - 3) : bs \in bss \ {<<>>} }

\* description values as they stand in a line or a row: a lone quote, an
\* opening quote only, a closing quote only, two pairs of quotes, spaces
\* inside the quotes
DescriptionValues ==
    { <<QUOTE>>,
      <<QUOTE, 97, 98>>,
      <<97, 98, QUOTE>>,
      <<QUOTE, QUOTE, 97, QUOTE, QUOTE>>,
      <<QUOTE, SPACE, 97, SPACE, QUOTE>> }

\* "  # indented"
IndentedComment == <<32, 32, 35, 32, 105, 110, 100, 101, 110, 116, 101, 100>>

\* further hand-made blocks, parsed alone, after and before a valid record
TextEdgeBlocks ==
    { \* TX_TYPE a second time, after a comment and with a value that does not parse
      InsertAt(InsertAt(Lines(RECORD_1), 5, CommentLine), 6,
               FieldLine("TxKind", <<100, 101, 112, 111, 115, 105, 116>>)),
      \* FROM_USER_ID and TIMESTAMP are missing
      RemoveAt(RemoveAt(Lines(RECORD_1), 6), 3),
      \* only DESCRIPTION and TO_USER_ID are given
      << FieldLine("Description", Quoted(DescOk)), FieldLine("ToUserId", <<53>>) >>,
      \* no line at all
      << >>,
      \* a comment, a line of a space and a tab, an indented comment
      << CommentLine, <<SPACE, 9>>, IndentedComment >>,
      \* an indented comment inside a record
      InsertAt(Lines(RECORD_1), 2, IndentedComment),
      \* "#TX_ID: 1" before a record
      << <<COMMENT_SYMBOL_1LINE>> \o FieldLine("Id", <<49>>) >> \o Lines(RECORD_1),
      \* "TX_ID: 1", then ": 5"
      << FieldLine("Id", <<49>>), <<FIELD_KV_DELIMITER, SPACE, 53>> >>,
      \* "TX_ID: 1 # c"
      << FieldLine("Id", <<49, SPACE, COMMENT_SYMBOL_1LINE, SPACE, 99>>) >>,
      \* "TX_ID: 1", then the unknown key TX_KIND with a value no field takes
      << FieldLine("Id", <<49>>),
         <<84, 88, 95, 75, 73, 78, 68, FIELD_KV_DELIMITER, SPACE, QUOTE, 120>> >>,
      \* DESCRIPTION a second time, without quotes
      << FieldLine("Description", Quoted(DescOk)), FieldLine("Description", DescOk) >>,
      \* TX_ID a second time, with a value that is not a number
      << FieldLine("Id", <<49>>), FieldLine("Amount", <<MINUS, 53>>), FieldLine("Id", <<120>>) >>,
      \* FROM_USER_ID with a negative number
      << FieldLine("Id", <<PLUS, 49>>), FieldLine("FromUserId", <<MINUS, 53>>) >>,
      \* TX_ID one above u64::MAX
      << FieldLine("Id", U64_MAX_PLUS_1) >>,
      \* AMOUNT one below i64::MIN
      << FieldLine("Id", <<49>>), FieldLine("Amount", <<MINUS>> \o I64_MIN_MAGNITUDE_PLUS_1) >>,
      \* AMOUNT one above i64::MAX, with a letter after it
      << FieldLine("Amount", I64_MIN_MAGNITUDE \o <<120>>) >>,
      \* no-break spaces around the line and around the value of TX_ID, then
      \* a line of one ideographic space
      << NBSP \o <<84, 88, 95, 73, 68, FIELD_KV_DELIMITER>> \o NBSP \o <<49>> \o NBSP >>
         \o Tail(Lines(RECORD_1)) \o << IDEOGRAPHIC_SPACE >> }
    \cup { ReplaceAt(Lines(RECORD_1), 8, FieldLine("Description", v)) : v \in DescriptionValues }

Unended(t) == IF Len(t) >= 3 THEN Take(t, Len(t) - 3) ELSE <<>>

TextEdgeInputs ==
    LET bss == UNION { { <<b>>, <<Lines(RECORD_1), b>>, <<b, Lines(sample_tx)>> } :
                       b \in TextEdgeBlocks }
    IN { JoinBlocks(bs, <<LF>>) : bs \in bss }
       \cup { Unended(JoinBlocks(bs, <<LF, LF>>)) : bs \in bss }

Tokens(tx) ==
    << u_to_string(tx.id), kind_to_string(tx.kind), u_to_string(tx.from),
       u_to_string(tx.to), i_to_string(tx.amount), u_to_string(tx.ts),
       status_to_string(tx.status), Quoted(tx.description) >>

Row(tokens) == join(tokens, CSV_DELIMITER)

Spaced(tokens) == [i \in 1..Len(tokens) |-> <<SPACE>> \o tokens[i] \o <<SPACE>>]

\* the rows of the hand-made CSV inputs
CsvRows ==
    { Row(Tokens(RECORD_1)),
      Row(Spaced(Tokens(sample_tx))),
      Row(Take(Tokens(RECORD_1), 7)),
      Row(Tokens(RECORD_1) \o <<Quoted(DescOk)>>),
      <<>>,
      Row(ReplaceAt(Tokens(RECORD_1), 2, <<100, 101, 112, 111, 115, 105, 116>>)),   \* deposit
      Row(ReplaceAt(Tokens(RECORD_1), 7, <<83, 117, 99, 99, 101, 115, 115>>)),      \* Success
      Row(ReplaceAt(Tokens(RECORD_1), 8, RECORD_1.description)),
      Row(ReplaceAt(Tokens(RECORD_1), 1, <<45, 49>>)) }                             \* -1
    \cup { Row(ReplaceAt(Tokens(RECORD_1), 8, v)) : v \in DescriptionValues }
    \cup { \* nine tokens, the first of them "x"
           Row(ReplaceAt(Tokens(RECORD_1) \o <<Quoted(DescOk)>>, 1, <<120>>)),
           \* "x,deposit"
           Row(<<<<120>>, <<100, 101, 112, 111, 115, 105, 116>>>>),
           \* a line of two spaces
           <<SPACE, SPACE>>,
           \* TX_ID one above u64::MAX
           Row(ReplaceAt(Tokens(RECORD_1), 1, U64_MAX_PLUS_1)),
           \* a no-break space before each token and an ideographic space after it
           Row([i \in 1..FIELDS_COUNT |-> NBSP \o Tokens(RECORD_1)[i] \o IDEOGRAPHIC_SPACE]) }

\* the header with its last column renamed to WRONG_COL
WrongHeader == Take(HEADER_SIGNATURE, 62) \o <<87, 82, 79, 78, 71, 95, 67, 79, 76>>

\* first lines: the header, the header ended by CR LF, a renamed column, a
\* space after the header, an empty line
CsvHeaders ==
    { HEADER_SIGNATURE, HEADER_SIGNATURE \o <<CR>>, WrongHeader,
      HEADER_SIGNATURE \o <<SPACE>>, <<>> }

\* the rows after each first line; the header alone, not ended or ended by a
\* lone CR
CsvInputs ==
    {<<>>, HEADER_SIGNATURE, HEADER_SIGNATURE \o <<CR>>} \cup
    { JoinLines(<<h>> \o rows) :
        <<h, rows>> \in CsvHeaders \X SeqsUpTo(CsvRows, MaxFrames) }

\* what a reader delivers before it fails: nothing, a part of a record, a
\* whole record, a record and a part of the next
FailingInputs(c) ==
    LET whole == Write(c, <<sample_tx>>)
        two == Write(c, <<sample_tx, RECORD_1>>)
        delivered ==
            CASE c = "binary" -> {<<>>, Take(whole, 2), Take(whole, 6), Take(whole, 30),
                                  whole, Take(two, Len(whole) + 2)}
              [] c = "text" -> {<<>>, Take(whole, 5), Take(whole, 9), whole,
                                Take(whole, Len(whole) - 1), Take(two, Len(whole) + 5)}
              [] c = "csv" -> {<<>>, Take(whole, 10), HEADER_SIGNATURE,
                               HEADER_SIGNATURE \o <<LF>>, Take(whole, Len(whole) - 1), whole}
    IN { d \o <<IO_ERROR>> : d \in delivered }

Inputs(c) ==
    CASE c = "binary" -> BinaryInputs \cup FailingInputs(c)
      [] c = "text" -> TextInputs \cup TextEdgeInputs \cup FailingInputs(c)
      [] c = "csv" -> CsvInputs \cup FailingInputs(c)

(***************************************************************************)
(* The comparer: src/bin/comparer.rs.                                      *)
(***************************************************************************)
\* the formats of codecs/base.rs: the three codecs and the no-op format
Formats == Codecs \cup {"dummy"}

\* Format::parse: DummyCodec::parse returns Ok(vec![]) whatever the stream is
Format_parse(f, stream) == IF f = "dummy" THEN Ok(<<>>) ELSE Parse(f, stream)

\* HashMap::new
HashMap_new == [item \in {} |-> 0]

\* *record_count.entry(item).or_insert(0) += d
entry_add(m, item, d) ==
    [r \in DOMAIN m \cup {item} |-> (IF r \in DOMAIN m THEN m[r] ELSE 0)
                                      + (IF r = item THEN d ELSE 0)]

RECURSIVE count_records(_, _, _)
\* the loops of run over the records of a file
count_records(m, records, d) ==
    IF records = <<>> THEN m
    ELSE count_records(entry_add(m, Head(records), d), Tail(records), d)

\* retain that keeps the positive counts only
retain_positive(m) == [r \in { x \in DOMAIN m : m[x] > 0 } |-> m[r]]

\* record_count.retain(|_, v| 0 != *v)
retain_nonzero(m) == [r \in { x \in DOMAIN m : m[x] # 0 } |-> m[r]]

\* the lines run prints
LineIdentical == [line |-> "All transaction records are identical."]
LineUnique(n) ==
    [line |-> "There are {} unique transactions that don't match between the files", n |-> n]

LineNoEquivalent(id, count) ==
    [line |-> "There is no equivivalent for transaction {} in the file '{}'",
     id |-> id, file |-> IF count > 0 THEN "#1" ELSE "#2"]

\* run returns Ok(())
OkUnit == [tag |-> "Ok(())"]

\* File::open failed: run returns the io::Error "Error opening a file ..."
OpenError == [tag |-> "Error opening a file"]

\* println! could not write to stdout: the process panics ("failed printing
\* to stdout") and exits with status 101
PrintPanic == [tag |-> "panic", message |-> "failed printing to stdout"]

\* what a failed print or write of l leaves on stdout when it leaves
\* anything: the first bytes of l, not all of them
Partial(l) == [partial |-> l]

\* stdout after a print or write of l that fails
FailedOutput(out, l) == {out, Append(out, Partial(l))}

(***************************************************************************)
(* Stdout of the converter: std::io::stdout().lock(), the line-buffered    *)
(* writer run prints and writes through (converter.rs:24, 26, 28).         *)
(***************************************************************************)
\* the capacity of the buffer of the LineWriter behind std::io::stdout()
LINE_WRITER_CAPACITY == 1024

\* a stdout (file descriptor 1) that takes every byte written to it
Unlimited == [limited |-> FALSE, left |-> 0]

\* a stdout that takes n more bytes and fails every write after them
Takes(n) == [limited |-> TRUE, left |-> n]

\* of n bytes written to a stdout with this room, the number it takes
accepted(room, n) == IF room.limited /\ room.left < n THEN room.left ELSE n

\* the writer: out, the bytes that reached stdout; buf, the bytes held in
\* the buffer of the LineWriter; room, what stdout takes; ok, whether the
\* calls made so far all returned Ok
Writer(out, buf, room) == [out |-> out, buf |-> buf, room |-> room, ok |-> TRUE]

\* the first n bytes of b reach stdout; the write of b returns Ok when these
\* are all of b
took(w, b, n) ==
    [w EXCEPT !.out = @ \o Take(b, n),
              !.room = [@ EXCEPT !.left = IF w.room.limited THEN @ - n ELSE @],
              !.ok = (n = Len(b))]

\* StdoutRaw::write_all of b, past the buffer: what stdout does not take of
\* b is lost
inner_write_all(w, b) == took(w, b, accepted(w.room, Len(b)))

\* BufWriter::flush_buf, n bytes taken: they leave the buffer
flushed(w, n) == [took(w, w.buf, n) EXCEPT !.buf = Drop(w.buf, n)]

\* BufWriter::flush_buf: the buffer is written to stdout; what stdout does
\* not take stays in the buffer and the call returns the error
flush_buf(w) == flushed(w, accepted(w.room, Len(w.buf)))

\* BufWriter::write_all of b: b goes to the buffer when it fits; the buffer
\* is flushed first when b does not fit, and b is written past the empty
\* buffer when it is as long as the buffer is
BufWriter_write_all(w, b) ==
    LET spare_capacity == LINE_WRITER_CAPACITY - Len(w.buf)
    IN IF Len(b) < spare_capacity THEN [w EXCEPT !.buf = @ \o b]
       ELSE LET f == IF Len(b) > spare_capacity THEN flush_buf(w) ELSE w
            IN IF ~f.ok THEN f
               ELSE IF Len(b) >= LINE_WRITER_CAPACITY THEN inner_write_all(f, b)
               ELSE [f EXCEPT !.buf = @ \o b]

\* memrchr(b'\n', b): the index of the last line feed of b, 0 when b has
\* none
newline_idx(b) ==
    LET at == {i \in 1..Len(b) : b[i] = LF}
    IN IF at = {} THEN 0 ELSE CHOOSE i \in at : \A j \in at : j <= i

\* LineWriterShim::flush_if_completed_line
flush_if_completed_line(w) ==
    IF w.buf # <<>> /\ w.buf[Len(w.buf)] = LF THEN flush_buf(w) ELSE w

\* the `?` after a call on the writer: the next call is made when it
\* returned Ok
and_then_write(w, b) == IF w.ok THEN BufWriter_write_all(w, b) ELSE w
and_then_flush(w) == IF w.ok THEN flush_buf(w) ELSE w

\* LineWriterShim::write_all of b, i the index of its last line feed: b
\* without a line feed goes to the buffer; otherwise b up to its last line
\* feed is written to stdout, past the buffer when that is empty and
\* together with the buffer when it is not, and the rest of b goes to the
\* buffer
write_all_lines(w, b, i) ==
    IF i = 0 THEN and_then_write(flush_if_completed_line(w), b)
    ELSE and_then_write(IF w.buf = <<>>
                        THEN inner_write_all(w, Take(b, i))
                        ELSE and_then_flush(BufWriter_write_all(w, Take(b, i))),
                        Drop(b, i))

\* StdoutLock::write_all, LineWriterShim::write_all
LineWriter_write_all(w, b) == write_all_lines(w, b, newline_idx(b))

\* write_all calls made one after the other, up to the first that fails
RECURSIVE write_calls(_, _)
write_calls(w, calls) ==
    IF calls = <<>> \/ ~w.ok THEN w
    ELSE write_calls(LineWriter_write_all(w, Head(calls)), Tail(calls))

(***************************************************************************)
(* The state machine.                                                      *)
(***************************************************************************)
\* the local state of the running parse call, from the variables
Local ==
    [pc |-> pc, cursor |-> cursor, pos |-> pos, line_num |-> line_num,
     input_line |-> input_line, builder |-> builder, record_size |-> record_size,
     result |-> result, outcome |-> outcome]

Apply(st) ==
    /\ pc' = st.pc
    /\ cursor' = st.cursor
    /\ pos' = st.pos
    /\ line_num' = st.line_num
    /\ input_line' = st.input_line
    /\ builder' = st.builder
    /\ record_size' = st.record_size
    /\ result' = st.result
    /\ outcome' = st.outcome
    /\ UNCHANGED <<harness, codec, data, widx, input>>
    /\ UNCHANGED cli_vars

InitLocal(p) ==
    /\ pc = p
    /\ cursor = 0
    /\ pos = 0
    /\ line_num = 0
    /\ input_line = <<>>
    /\ builder = RecordBuilder_new
    /\ record_size = 0
    /\ result = <<>>
    /\ outcome = Running
    /\ widx = 0
    /\ format1 = "dummy" /\ file1 = <<>>
    /\ format2 = "dummy" /\ file2 = <<>>
    /\ record_count = HashMap_new
    /\ stdout = <<>>
    /\ stdout_buffer = <<>>

\* a round trip as the tests make it: write the records, then parse the bytes
InitRoundTrip ==
    /\ harness = "write_then_parse"
    /\ codec \in Codecs
    /\ data \in SeqsUpTo(Records, MaxRecords)
    /\ input = <<>>
    /\ InitLocal(IF codec = "csv" THEN "write_header" ELSE "write")
    /\ output_format = "binary"
    /\ stdout_room = Unlimited

\* parse called on a given stream
InitParse ==
    /\ harness = "parse"
    /\ codec \in Codecs
    /\ data = <<>>
    /\ input \in Inputs(codec)
    /\ InitLocal(ParseStart(codec))
    /\ output_format = "binary"
    /\ stdout_room = Unlimited

Init == InitRoundTrip \/ InitParse

WriteFrame == UNCHANGED <<harness, codec, data, cursor, pos, line_num, input_line,
                          builder, record_size, result, outcome, format1, file1,
                          format2, file2, record_count, stdout, stdout_buffer,
                          stdout_room, output_format>>

\* CsvCodec::write, line 100
CsvWriteHeader ==
    /\ pc = "write_header"
    /\ input' = input \o csv_write_header
    /\ pc' = "write"
    /\ UNCHANGED widx
    /\ WriteFrame

\* BinaryCodec::write, one turn of the loop
BinaryWrite ==
    /\ codec = "binary" /\ pc = "write" /\ widx < Len(data)
    /\ input' = input \o binary_write_record(data[widx + 1])
    /\ widx' = widx + 1
    /\ UNCHANGED pc
    /\ WriteFrame

\* TextCodec::write, one turn of the loop
TextWrite ==
    /\ codec = "text" /\ pc = "write" /\ widx < Len(data)
    /\ input' = input \o text_write_record(data[widx + 1])
    /\ widx' = widx + 1
    /\ UNCHANGED pc
    /\ WriteFrame

\* CsvCodec::write, one turn of the loop
CsvWrite ==
    /\ codec = "csv" /\ pc = "write" /\ widx < Len(data)
    /\ input' = input \o csv_write_single_record(data[widx + 1])
    /\ widx' = widx + 1
    /\ UNCHANGED pc
    /\ WriteFrame

\* write returns Ok(()) and the bytes written are handed to parse
WriteDone ==
    /\ pc = "write" /\ widx = Len(data)
    /\ pc' = ParseStart(codec)
    /\ UNCHANGED <<input, widx>>
    /\ WriteFrame

BinaryReadMagic == pc = "magic" /\ Apply(binary_read_magic(input, Local))

BinaryReadSize == pc = "size" /\ Apply(binary_read_size(input, Local))

BinaryReadBody == pc = "body" /\ Apply(binary_read_body(input, Local))

TextParseLine ==
    /\ pc = "line" /\ next_line(input, cursor).some
    /\ Apply(text_parse_line(input, Local))

TextParseEnd ==
    /\ pc = "line" /\ ~next_line(input, cursor).some
    /\ Apply(text_parse_end(Local))

CsvParseHeader == pc = "header" /\ Apply(csv_parse_header(input, Local))

CsvParseRow ==
    /\ pc = "rows" /\ next_line(input, cursor).some
    /\ Apply(csv_parse_row(input, Local))

CsvParseEnd ==
    /\ pc = "rows" /\ ~next_line(input, cursor).some
    /\ Apply(parse_end(Local))

Next ==
    \/ CsvWriteHeader
    \/ BinaryWrite
    \/ TextWrite
    \/ CsvWrite
    \/ WriteDone
    \/ BinaryReadMagic
    \/ BinaryReadSize
    \/ BinaryReadBody
    \/ TextParseLine
    \/ TextParseEnd
    \/ CsvParseHeader
    \/ CsvParseRow
    \/ CsvParseEnd

Spec == Init /\ [][Next]_vars

(***************************************************************************)
(* The text parse of one block whose eight lines come in any order.        *)
(***************************************************************************)
RECURSIVE Orders(_)
\* the sequences that hold every element of S once
Orders(S) ==
    IF S = {} THEN {<<>>}
    ELSE UNION { { <<x>> \o p : p \in Orders(S \ {x}) } : x \in S }

\* the eight lines of tx in the order given by the permutation p
Permuted(tx, p) == [i \in 1..Len(p) |-> Lines(tx)[p[i]]]

\* one block of eight lines, in every order
PermutedInputs(tx) ==
    { JoinLines(Permuted(tx, p)) : p \in Orders(1..Len(Lines(tx))) }

InitAnyOrder ==
    /\ harness = "parse"
    /\ codec = "text"
    /\ data = <<>>
    /\ input \in PermutedInputs(sample_tx)
    /\ InitLocal(ParseStart("text"))
    /\ output_format = "binary"
    /\ stdout_room = Unlimited

NextAnyOrder ==
    \/ TextParseLine
    \/ TextParseEnd

SpecAnyOrder == InitAnyOrder /\ [][NextAnyOrder]_vars

(***************************************************************************)
(* The runs of the comparer.                                               *)
(***************************************************************************)
\* the records of the compared files: two of them differ by the timestamp
\* only
ComparerRecords ==
    { sample_tx, RECORD_1, [sample_tx EXCEPT !.ts = sample_tx.ts + 1] }

\* a format and the bytes of a file: files written by the codecs, a file
\* read with the no-op format, the file the no-op format writes, a file
\* whose reader fails after its last byte, and a text file that does not
\* parse
ComparerFiles ==
    { <<f, Write(f, recs)>> : <<f, recs>> \in Codecs \X SeqsUpTo(ComparerRecords, MaxRecords) }
    \cup { <<"dummy", Write("text", <<sample_tx>>)>>,
           <<"dummy", Write("dummy", <<sample_tx>>)>>,
           <<"binary", Write("binary", <<sample_tx>>) \o <<IO_ERROR>>>>,
           <<"text", <<84, 88, 95, 73, 68, 32, 49, LF>>>> }

InitComparer ==
    /\ harness = "comparer"
    /\ \E f \in ComparerFiles : format1 = f[1] /\ file1 = f[2]
    /\ \E f \in ComparerFiles : format2 = f[1] /\ file2 = f[2]
    /\ record_count = HashMap_new
    /\ stdout = <<>> /\ stdout_buffer = <<>> /\ stdout_room = Unlimited
    /\ pc = "read1"
    /\ outcome = Running
    /\ output_format = "binary"
    /\ codec = "binary" /\ data = <<>> /\ widx = 0 /\ input = <<>>
    /\ cursor = 0 /\ pos = 0 /\ line_num = 0 /\ input_line = <<>>
    /\ builder = RecordBuilder_new /\ record_size = 0 /\ result = <<>>

ComparerFrame ==
    UNCHANGED <<harness, codec, data, widx, input, cursor, pos, line_num, input_line,
                builder, record_size, result, format1, file1, format2, file2,
                stdout_buffer, stdout_room, output_format>>

\* run, lines 31-37, read_records_from_file: File::open, which may fail; the
\* first file is read and its records are counted up
ReadFirstFile ==
    /\ harness = "comparer" /\ pc = "read1"
    /\ \/ pc' = "done" /\ outcome' = OpenError /\ UNCHANGED record_count
       \/ LET ds1_records == Format_parse(format1, file1)
          IN IF ds1_records.tag # "Ok"
             THEN pc' = "done" /\ outcome' = ds1_records /\ UNCHANGED record_count
             ELSE /\ record_count' = count_records(record_count, ds1_records.records, 1)
                  /\ pc' = "read2" /\ UNCHANGED outcome
    /\ UNCHANGED stdout
    /\ ComparerFrame

\* run, lines 38-44, read_records_from_file: File::open, which may fail; the
\* second file is read and its records are counted down
ReadSecondFile ==
    /\ harness = "comparer" /\ pc = "read2"
    /\ \/ pc' = "done" /\ outcome' = OpenError /\ UNCHANGED record_count
       \/ LET ds2_records == Format_parse(format2, file2)
          IN IF ds2_records.tag # "Ok"
             THEN pc' = "done" /\ outcome' = ds2_records /\ UNCHANGED record_count
             ELSE /\ record_count' = count_records(record_count, ds2_records.records, -1)
                  /\ pc' = "retain" /\ UNCHANGED outcome
    /\ UNCHANGED stdout
    /\ ComparerFrame

\* run, line 46
Retain ==
    /\ harness = "comparer" /\ pc = "retain"
    /\ record_count' = retain_nonzero(record_count)
    /\ pc' = "report"
    /\ UNCHANGED <<stdout, outcome>>
    /\ ComparerFrame

\* run, lines 49-55: the first line of the report, or println! panics
Report ==
    /\ harness = "comparer" /\ pc = "report"
    /\ LET l == IF DOMAIN record_count = {}
                THEN LineIdentical ELSE LineUnique(Cardinality(DOMAIN record_count))
       IN \/ /\ stdout' = Append(stdout, l)
             /\ IF DOMAIN record_count = {}
                THEN pc' = "done" /\ outcome' = OkUnit
                ELSE pc' = "items" /\ UNCHANGED outcome
          \/ /\ stdout' \in FailedOutput(stdout, l)
             /\ pc' = "done" /\ outcome' = PrintPanic
    /\ UNCHANGED record_count
    /\ ComparerFrame

\* run, lines 57-63: one turn of the loop over record_count.into_iter(), which
\* yields the entries in any order; or println! panics
ReportItem ==
    /\ harness = "comparer" /\ pc = "items"
    /\ \E item \in DOMAIN record_count :
          /\ record_count' = [r \in DOMAIN record_count \ {item} |-> record_count[r]]
          /\ LET l == LineNoEquivalent(item.id, record_count[item])
             IN \/ stdout' = Append(stdout, l) /\ UNCHANGED <<pc, outcome>>
                \/ /\ stdout' \in FailedOutput(stdout, l)
                   /\ pc' = "done" /\ outcome' = PrintPanic
    /\ ComparerFrame

\* run, line 66
ReportDone ==
    /\ harness = "comparer" /\ pc = "items"
    /\ DOMAIN record_count = {}
    /\ pc' = "done" /\ outcome' = OkUnit
    /\ UNCHANGED <<record_count, stdout>>
    /\ ComparerFrame

NextComparer ==
    \/ ReadFirstFile
    \/ ReadSecondFile
    \/ Retain
    \/ Report
    \/ ReportItem
    \/ ReportDone

SpecComparer == InitComparer /\ [][NextComparer]_vars

(***************************************************************************)
(* The runs of the converter: src/bin/converter.rs.  stdout holds the      *)
(* bytes that reached file descriptor 1 after the line main prints before  *)
(* it calls run, stdout_buffer the bytes the writer holds back.            *)
(***************************************************************************)
\* the error of a write call that fails
WriteError == [tag |-> "WriteError"]

\* " records successfully ingested\n", the text of the format string after
\* its argument
INGESTED == <<32, 114, 101, 99, 111, 114, 100, 115, 32, 115, 117, 99, 99, 101, 115, 115,
              102, 117, 108, 108, 121, 32, 105, 110, 103, 101, 115, 116, 101, 100, 10>>

\* println!("{} records successfully ingested\n", data.len()): the byte
\* strings write_fmt hands to write_all, the number and then the text with
\* the line feed println! adds
LineIngestedCalls(n) == <<u_to_string(n), INGESTED \o <<LF>>>>

\* println!("{} records successfully ingested\n", data.len()): the bytes
LineIngested(n) == u_to_string(n) \o INGESTED \o <<LF>>

\* the records of the converted files; the id of the last one is a line
\* feed in the binary format
ConverterRecords == { sample_tx, RECORD_1, [sample_tx EXCEPT !.id = LF] }

\* the input files of format c: the files the codec writes, each of them
\* also cut short by three bytes, with a line of garbage after it, and read
\* by a reader that fails after the last byte
ConverterInputs(c) ==
    UNION { { Write(c, recs),
              Write(c, recs) \o <<120, LF>>,
              Take(Write(c, recs), Len(Write(c, recs)) - 3),
              Write(c, recs) \o <<IO_ERROR>> } :
            recs \in SeqsUpTo(ConverterRecords, MaxRecords) }

\* what stdout takes in the runs: every byte; none; all but the last byte
\* of the line println! prints for less than ten records; that line and
\* 0, 1, 3, 60 and 100 bytes more; that line and the lines of RECORD_1 in
\* the text format, without the blank line after them
StdoutRooms ==
    {Unlimited}
    \cup { Takes(n) : n \in {0, 32, 33, 34, 36, 93, 133} }
    \cup { Takes(Len(LineIngested(1) \o text_write_single_record(RECORD_1))) }

InitConverter ==
    /\ harness = "converter"
    /\ codec \in Codecs
    /\ output_format \in Codecs
    /\ input \in ConverterInputs(codec)
    /\ stdout_room \in StdoutRooms
    /\ data = <<>>
    /\ InitLocal("open")

ConverterFrame ==
    UNCHANGED <<harness, codec, input, cursor, pos, line_num, input_line, builder,
                record_size, result, format1, file1, format2, file2, record_count,
                output_format>>

\* the writer of the run
Stdout == Writer(stdout, stdout_buffer, stdout_room)

\* the writer after the calls of a print or a write
Becomes(w) ==
    /\ stdout' = w.out
    /\ stdout_buffer' = w.buf
    /\ stdout_room' = w.room

\* run, lines 17-22: File::open, which may fail; parse starts on the file
ConverterOpen ==
    /\ harness = "converter" /\ pc = "open"
    /\ \/ pc' = ParseStart(codec) /\ UNCHANGED outcome
       \/ pc' = "exit" /\ outcome' = OpenError
    /\ UNCHANGED <<data, widx, stdout, stdout_buffer, stdout_room>>
    /\ ConverterFrame

\* run, lines 25-26: parse has returned; its error ends run (the `?`),
\* otherwise the records are bound to data and their number is printed;
\* println! panics when a write_all of it returns an error
ConverterIngested ==
    /\ harness = "converter" /\ pc = "done"
    /\ IF outcome.tag # "Ok"
       THEN pc' = "exit" /\ UNCHANGED <<data, stdout, stdout_buffer, stdout_room, outcome>>
       ELSE /\ data' = outcome.records
            /\ LET w == write_calls(Stdout, LineIngestedCalls(Len(outcome.records)))
               IN /\ Becomes(w)
                  /\ pc' = IF ~w.ok THEN "exit"
                           ELSE IF output_format = "csv" THEN "out_header" ELSE "out"
                  /\ outcome' = IF w.ok THEN Running ELSE PrintPanic
    /\ UNCHANGED widx
    /\ ConverterFrame

\* run, line 28, CsvCodec::write, line 100: the header line; the error of a
\* write_all ends write and run
ConverterWriteHeader ==
    /\ harness = "converter" /\ pc = "out_header"
    /\ LET w == write_calls(Stdout, writeln_calls(csv_write_header))
       IN /\ Becomes(w)
          /\ pc' = IF w.ok THEN "out" ELSE "exit"
          /\ outcome' = IF w.ok THEN outcome ELSE WriteError
    /\ UNCHANGED <<data, widx>>
    /\ ConverterFrame

\* run, line 28: one turn of the loop of write over data; the error of a
\* write_all ends write and run
ConverterWrite ==
    /\ harness = "converter" /\ pc = "out" /\ widx < Len(data)
    /\ LET w == write_calls(Stdout, WriteCalls(output_format, data[widx + 1]))
       IN /\ Becomes(w)
          /\ pc' = IF w.ok THEN pc ELSE "exit"
          /\ outcome' = IF w.ok THEN outcome ELSE WriteError
          /\ widx' = IF w.ok THEN widx + 1 ELSE widx
    /\ UNCHANGED data
    /\ ConverterFrame

\* run, lines 28-29: write returns Ok(()) and so does run, which does not
\* flush stdout
ConverterDone ==
    /\ harness = "converter" /\ pc = "out" /\ widx = Len(data)
    /\ pc' = "exit" /\ outcome' = OkUnit
    /\ UNCHANGED <<data, widx, stdout, stdout_buffer, stdout_room>>
    /\ ConverterFrame

\* main, lines 39-46: the process ends, by the return of main after
\* Ok(()), by exit(1) after an error, or by the panic of println!; at its
\* end std flushes the buffer of stdout and drops the error of that
\* flush; stdout_buffer is left with the bytes that were never written
ConverterExit ==
    /\ harness = "converter" /\ pc = "exit"
    /\ Becomes(flush_buf(Stdout))
    /\ pc' = "exited"
    /\ UNCHANGED <<data, widx, outcome>>
    /\ ConverterFrame

NextConverter ==
    \/ ConverterOpen
    \/ BinaryReadMagic
    \/ BinaryReadSize
    \/ BinaryReadBody
    \/ TextParseLine
    \/ TextParseEnd
    \/ CsvParseHeader
    \/ CsvParseRow
    \/ CsvParseEnd
    \/ ConverterIngested
    \/ ConverterWriteHeader
    \/ ConverterWrite
    \/ ConverterDone
    \/ ConverterExit

SpecConverter == InitConverter /\ [][NextConverter]_vars

(***************************************************************************)
(* Properties.                                                             *)
(***************************************************************************)
RoundTripDone(c) == harness = "write_then_parse" /\ codec = c /\ pc = "done"

Contains(s, b) == \E i \in 1..Len(s) : s[i] = b

\* C1: binary round trip: parse of the bytes written for any record
\* sequence returns Ok with exactly that sequence.
C1_BinaryRoundTrip == RoundTripDone("binary") => outcome = Ok(data)

C1_Witness ==
    /\ RoundTripDone("binary")
    /\ outcome = Ok(data)
    /\ Len(data) >= 2
    /\ \E i \in 1..Len(data) : data[i].description = <<>>
    /\ \E i \in 1..Len(data) : data[i].amount < 0

\* C2 as stated: text round trip whatever the description is, line breaks
\* included.
C2_TextRoundTripAnyDescription == RoundTripDone("text") => outcome = Ok(data)

NoLineFeed(recs) == \A i \in 1..Len(recs) : ~Contains(recs[i].description, LF)

\* C2, amended: text round trip for the record sequences whose descriptions
\* hold no line feed (quotes, colons, '#' and the empty description are fine).
C2_TextRoundTrip == (RoundTripDone("text") /\ NoLineFeed(data)) => outcome = Ok(data)

C2_Witness ==
    /\ RoundTripDone("text")
    /\ outcome = Ok(data)
    /\ Len(data) >= 2
    /\ \E i \in 1..Len(data) : data[i].description = <<>>
    /\ \E i \in 1..Len(data) :
          /\ Contains(data[i].description, QUOTE)
          /\ Contains(data[i].description, FIELD_KV_DELIMITER)
          /\ Contains(data[i].description, COMMENT_SYMBOL_1LINE)

\* C3 as stated: CSV round trip for any description, a comma included.
C3_CsvRoundTripAnyDescription == RoundTripDone("csv") => outcome = Ok(data)

NoComma(recs) == \A i \in 1..Len(recs) : ~Contains(recs[i].description, CSV_DELIMITER)

\* C3, amended: CSV round trip for the record sequences whose descriptions
\* hold neither a comma nor a line feed.
C3_CsvRoundTrip ==
    (RoundTripDone("csv") /\ NoComma(data) /\ NoLineFeed(data)) => outcome = Ok(data)

C3_Witness ==
    /\ RoundTripDone("csv")
    /\ outcome = Ok(data)
    /\ Len(data) >= 2
    /\ \E i \in 1..Len(data) : data[i].description = <<>>
    /\ \E i \in 1..Len(data) : Contains(data[i].description, QUOTE)

\* parse stands between two units: frames, rows, or text records
AtBoundary == pc = "magic" \/ pc = "rows" \/ (pc = "line" /\ ~builder.is_dirty)

\* C4: fail fast, no partial result.  The run is over exactly when a Result
\* is returned; Ok carries the whole result and the whole input was read; an
\* error is decided by the input up to the end of the offending unit alone
\* (what follows was not read), or it is the ReadError of a reader that
\* failed after all it delivered was read; and between two units all that
\* was read parses without error, so the offending unit is the earliest one.
C4_FailFast ==
    /\ (outcome.tag # "none") <=> (pc = "done")
    /\ (pc = "done" /\ outcome.tag = "Ok") =>
          (outcome.records = result /\ cursor = Len(input))
    /\ (pc = "done" /\ outcome.tag # "Ok") =>
          \/ outcome = Parse(codec, Take(input, cursor))
          \/ Failing(input) /\ cursor = Delivered(input) /\ outcome = ReadError
    /\ AtBoundary => Parse(codec, Take(input, cursor)) = Ok(result)

C4_Witness ==
    /\ pc = "done"
    /\ outcome.tag = "ParsingError"
    /\ Len(result) >= 1
    /\ cursor < Len(input)

\* the bytes left in the stream
Left == Delivered(input) - cursor

\* C5 as stated: at a frame start of a stream that ends (its reader does
\* not fail), zero bytes left end the parse with Ok and the frames decoded
\* so far; one to three bytes left give ReadError.
C5_PartialMagicIsReadError ==
    [][(pc = "magic" /\ ~Failing(input)) =>
          /\ (Left = 0 => outcome' = Ok(result))
          /\ (Left >= 1 /\ Left <= 3 => outcome' = ReadError)]_vars

\* the single frames the writer and the tests make without any override
ValidFrames ==
    { binary_write_record(r) : r \in Records }
    \cup { encode_record(0, 0, DescOk, -1, RECORD_MAGIC),
           encode_record(2, 2, <<>>, -1, RECORD_MAGIC) }

\* complete valid frames, then a valid frame cut inside its length field or
\* inside its body
TruncatedInputs ==
    { Concat(fs) \o Take(f, k) :
        <<fs, f, k>> \in { x \in SeqsUpTo(ValidFrames, MaxFrames - 1) \X ValidFrames \X (4..80) :
                             x[3] < Len(x[2]) } }

\* C6: a stream cut inside the length field or the body of a frame, after
\* any number of complete frames, parses to ReadError.
C6_TruncatedIsReadError ==
    (codec = "binary" /\ pc = "done" /\ input \in TruncatedInputs) => outcome = ReadError

C6_Witness ==
    /\ codec = "binary" /\ pc = "done" /\ input \in TruncatedInputs
    /\ outcome = ReadError
    /\ Len(result) >= 1
    /\ record_size > Left

\* the size of the fixed fields of a body, from the layout the writer emits
FixedFieldsSize ==
    Len(binary_write_record(TxRecord(0, "Deposit", 0, 0, 0, 0, "Success", <<>>))) - 8

\* the body length the next four bytes declare
DeclaredSize == u_from_be_bytes(SubSeq(input, cursor + 1, cursor + 4))

\* C7: a declared body length below the size of the fixed fields is rejected
\* with IncompleteRecord as soon as it is read: no body byte is consumed.
C7_UndersizedFrame ==
    [][(pc = "size" /\ Left >= 4 /\ DeclaredSize < FixedFieldsSize) =>
          /\ outcome' = ParsingError(IncompleteRecord, with_position(pos + 4))
          /\ cursor' = cursor + 4]_vars

IsIncompleteRecord(o) == o.tag = "ParsingError" /\ o.source = IncompleteRecord

C7_Witness ==
    /\ codec = "binary" /\ pc = "done"
    /\ IsIncompleteRecord(outcome)
    /\ record_size = 28
    /\ Left > 0
    /\ Len(result) >= 1

\* C8 as stated: the length check rejects exactly the declared lengths
\* below 29.
C8_ThresholdIs29 ==
    /\ (codec = "binary" /\ pc = "body") => record_size >= 29
    /\ (codec = "binary" /\ pc = "done" /\ IsIncompleteRecord(outcome)) => record_size < 29

\* C8, amended: the length check rejects exactly the declared lengths
\* below 46 = 8+1+8+8+8+8+1+4.
C8_ThresholdIs46 ==
    /\ (codec = "binary" /\ pc = "body") => record_size >= 46
    /\ (codec = "binary" /\ pc = "done" /\ IsIncompleteRecord(outcome)) => record_size < 46

C8_Witness ==
    /\ codec = "binary" /\ pc = "done"
    /\ IsIncompleteRecord(outcome)
    /\ record_size >= 29

IsInvalidRecordHeader(o) ==
    o.tag = "ParsingError" /\ o.source.err = "InvalidRecordHeader"

\* C9 as stated: a magic mismatch is reported with the hex of the four bytes
\* found, at the offset where the frame starts (the four bytes are the last
\* ones consumed).
C9_MagicMismatchAtFrameStart ==
    (codec = "binary" /\ pc = "done" /\ IsInvalidRecordHeader(outcome)) =>
        /\ outcome.source.value = bytes_to_hex(SubSeq(input, cursor - 3, cursor))
        /\ outcome.context = with_position(cursor - 4)

KindTokens == {kind_to_string(k) : k \in TxKinds}
StatusTokens == {status_to_string(s) : s \in TxStatuses}

\* tokens that are not in the tables: other case, a prefix, padding, nothing
OtherTokens ==
    { <<>>,
      <<100, 101, 112, 111, 115, 105, 116>>,        \* deposit
      <<68, 101, 112, 111, 115, 105, 116>>,         \* Deposit
      <<68, 69, 80, 79, 83, 73, 84, 32>>,           \* DEPOSIT and a space
      <<68, 69, 80, 79>>,                           \* DEPO
      <<83, 117, 99, 99, 101, 115, 115>>,           \* Success
      <<112, 101, 110, 100, 105, 110, 103>>,        \* pending
      <<48>> }                                      \* 0

IsUnparsableValue(o) == o.tag = "ParsingError" /\ o.source.err = "UnparsableValue"

\* the closed tables, in both directions
EnumTables ==
    /\ kind_to_string("Deposit") = <<68, 69, 80, 79, 83, 73, 84>>
    /\ kind_to_string("Transfer") = <<84, 82, 65, 78, 83, 70, 69, 82>>
    /\ kind_to_string("Withdrawal") = <<87, 73, 84, 72, 68, 82, 65, 87, 65, 76>>
    /\ status_to_string("Success") = <<83, 85, 67, 67, 69, 83, 83>>
    /\ status_to_string("Failure") = <<70, 65, 73, 76, 85, 82, 69>>
    /\ status_to_string("Pending") = <<80, 69, 78, 68, 73, 78, 71>>
    /\ <<kind_to_u8("Deposit"), kind_to_u8("Transfer"), kind_to_u8("Withdrawal")>> = <<0, 1, 2>>
    /\ <<status_to_u8("Success"), status_to_u8("Failure"), status_to_u8("Pending")>> = <<0, 1, 2>>
    /\ \A k \in TxKinds :
          /\ parse_kind_from_u8(kind_to_u8(k)) = POk(k)
          /\ kind_from_str(kind_to_string(k)) = POk(k)
    /\ \A s \in TxStatuses :
          /\ parse_status_from_u8(status_to_u8(s)) = POk(s)
          /\ status_from_str(status_to_string(s)) = POk(s)
    /\ \A b \in 3..255 :
          /\ parse_kind_from_u8(b) = PErr(UnparsableValue(u_to_string(b)))
          /\ parse_status_from_u8(b) = PErr(UnparsableValue(u_to_string(b)))
    /\ \A t \in (OtherTokens \cup StatusTokens) : kind_from_str(t) = PErr(UnparsableValue(t))
    /\ \A t \in (OtherTokens \cup KindTokens) : status_from_str(t) = PErr(UnparsableValue(t))

\* the body of the frame being read is wholly in the stream
BodyPresent == pc = "body" /\ Left >= record_size

\* a frame whose body is present and whose kind byte (status byte, the kind
\* being in range) is out of range: the step ends with UnparsableValue and
\* names the field
BinaryEnumErrors ==
    LET o == binary_read_body(input, Local).outcome
        kind == input[cursor + 9]
        status == input[cursor + 42]
    IN /\ (BodyPresent /\ kind > 2) =>
             /\ IsUnparsableValue(o)
             /\ o.context.ctx = "PositionAndField"
             /\ field_key_to_string(o.context.field_key) = <<84, 88, 95, 84, 89, 80, 69>>
       /\ (BodyPresent /\ kind <= 2 /\ status > 2) =>
             /\ IsUnparsableValue(o)
             /\ o.context.ctx = "PositionAndField"
             /\ field_key_to_string(o.context.field_key) = <<83, 84, 65, 84, 85, 83>>

\* a text line KEY: value for a kind or status not yet set, with a value
\* outside the table: the step ends with UnparsableValue of that value
TextEnumErrors ==
    LET nl == next_line(input, cursor)
        kv == split_once(trim(nl.line), FIELD_KV_DELIMITER)
        key == trim(kv.key)
        value == trim(kv.value)
        o == text_parse_line(input, Local).outcome
    IN (codec = "text" /\ pc = "line" /\ nl.some /\ nl.ok /\ kv.some) =>
          /\ (key = field_key_to_string("TxKind") /\ ~builder.kind.some /\ value \notin KindTokens)
                => (IsUnparsableValue(o) /\ o.source.value = value)
          /\ (key = field_key_to_string("Status") /\ ~builder.status.some /\ value \notin StatusTokens)
                => (IsUnparsableValue(o) /\ o.source.value = value)

\* a CSV row of eight tokens whose kind token (status token, the tokens
\* before it being fine) is outside the table: UnparsableValue of that token
CsvEnumErrors ==
    LET nl == next_line(input, cursor)
        raw == split(trim(nl.line), CSV_DELIMITER)
        v == [i \in 1..Len(raw) |-> trim(raw[i])]
        o == csv_parse_row(input, Local).outcome
    IN (codec = "csv" /\ pc = "rows" /\ nl.some /\ nl.ok /\ Len(v) = 8 /\ parse_u64(v[1]).ok) =>
          /\ (v[2] \notin KindTokens) => (IsUnparsableValue(o) /\ o.source.value = v[2])
          /\ (/\ v[2] \in KindTokens
              /\ parse_u64(v[3]).ok /\ parse_u64(v[4]).ok
              /\ parse_i64(v[5]).ok /\ parse_u64(v[6]).ok
              /\ v[7] \notin StatusTokens)
                => (IsUnparsableValue(o) /\ o.source.value = v[7])

\* C10: the enum tables are closed and bidirectional; every other token or
\* byte is UnparsableValue in each codec, and the binary codec names the
\* field (TX_TYPE or STATUS) of an out-of-range byte.
C10_ClosedEnumTables ==
    EnumTables /\ BinaryEnumErrors /\ TextEnumErrors /\ CsvEnumErrors

C10_Witness ==
    /\ codec = "binary" /\ pc = "done"
    /\ IsUnparsableValue(outcome)
    /\ outcome.context.ctx = "PositionAndField"
    /\ outcome.context.field_key = "Status"
    /\ outcome.source.value = <<51>>
    /\ Len(result) >= 1

\* C11: a block of one valid line for each of the eight keys parses to the
\* same single record whatever the order of its lines.
C11_FieldOrderIndependent ==
    /\ pc = "done" => outcome = Ok(<<sample_tx>>)
    /\ pc = "line" /\ cursor = Len(input) => finalize(builder) = POk(sample_tx)

\* the description comes first and the id last, and the record is returned
C11_Witness ==
    /\ pc = "done" /\ outcome = Ok(<<sample_tx>>)
    /\ IsPrefix(FieldLine("Description", Quoted(sample_tx.description)), input)
    /\ input_line = FieldLine("Id", u_to_string(sample_tx.id))
    /\ line_num = 8

\* the lines of the input read so far, as lines() yields them
ConsumedLines ==
    LET p == Take(input, cursor)
    IN IF p = <<>> THEN <<>>
       ELSE IF p[Len(p)] = LF THEN split(Take(p, Len(p) - 1), LF)
       ELSE split(p, LF)

IsBlankLine(raw) == trim(raw) = <<>>

IsCommentLine(raw) == trim(raw) # <<>> /\ trim(raw)[1] = COMMENT_SYMBOL_1LINE

\* the key a line names, when it is KEY: value with one of the eight keys
LineKey(raw) ==
    LET kv == split_once(trim(raw), FIELD_KV_DELIMITER)
    IN IF IsBlankLine(raw) \/ IsCommentLine(raw) \/ ~kv.some THEN PErr(NoFieldDelimiter)
       ELSE field_key_from_str(trim(kv.key))

\* the index of the last blank line among the lines ls, 0 when there is none
LastBlank(ls) ==
    LET S == { i \in 1..Len(ls) : IsBlankLine(ls[i]) }
    IN IF S = {} THEN 0 ELSE CHOOSE i \in S : \A j \in S : j <= i

\* the keys of the lines read since the last blank line: the open record
OpenKeys ==
    LET ls == ConsumedLines
    IN { LineKey(ls[i]).value : i \in { j \in (LastBlank(ls) + 1)..Len(ls) : LineKey(ls[j]).ok } }

BuilderField(b, k) ==
    CASE k = "Id" -> b.id
      [] k = "TxKind" -> b.kind
      [] k = "FromUserId" -> b.from
      [] k = "ToUserId" -> b.to
      [] k = "Amount" -> b.amount
      [] k = "Timestamp" -> b.ts
      [] k = "Status" -> b.status
      [] k = "Description" -> b.description

\* the line the next turn of the text loop reads
NextRaw == next_line(input, cursor).line

\* C12: while a record is open the builder holds a value for exactly the
\* keys of the lines read since the last blank line; a line naming one of
\* those keys again ends the parse with Duplicate(key) at that line, and no
\* step replaces a value the builder holds by another value.
C12_DuplicateDetection ==
    [][codec = "text" /\ pc = "line" =>
          /\ \A k \in TxFieldKeys : BuilderField(builder, k).some <=> k \in OpenKeys
          /\ (next_line(input, cursor).some /\ LineKey(NextRaw).ok
               /\ LineKey(NextRaw).value \in OpenKeys) =>
                 /\ outcome' = ParsingError(Duplicate(LineKey(NextRaw).value),
                                            with_line_number_and_line(line_num + 1, NextRaw))
                 /\ builder' = builder
                 /\ result' = result
          /\ \A k \in TxFieldKeys :
                BuilderField(builder, k).some =>
                  BuilderField(builder', k) \in {BuilderField(builder, k), None}]_vars

\* the second TX_TYPE line, after a comment and with a value that is not a
\* kind, is reported as a duplicate at its own line
C12_Witness ==
    /\ codec = "text" /\ pc = "done"
    /\ outcome = ParsingError(Duplicate("TxKind"),
                              with_line_number_and_line(6,
                                  FieldLine("TxKind", <<100, 101, 112, 111, 115, 105, 116>>)))
    /\ builder.kind = Some("Deposit")

\* the fixed order of the eight fields
FieldOrder ==
    <<"Id", "TxKind", "FromUserId", "ToUserId", "Amount", "Timestamp", "Status", "Description">>

\* the first field, in the fixed order, that the open record has no line for
FirstMissing ==
    FieldOrder[CHOOSE i \in 1..Len(FieldOrder) :
                 /\ FieldOrder[i] \notin OpenKeys
                 /\ \A j \in 1..(i - 1) : FieldOrder[j] \in OpenKeys]

\* the next turn of the text loop finds a blank line or the end of the input
Closing ==
    /\ codec = "text" /\ pc = "line"
    /\ (next_line(input, cursor).some => next_line(input, cursor).ok /\ IsBlankLine(NextRaw))

AtEnd == ~next_line(input, cursor).some

\* C13: a blank line or the end of the input closes the record only when a
\* field was set since the last close; the close fails with MissingField of
\* the first unset field in the fixed order, and a record is pushed only by a
\* close that finds all eight fields set.
C13_RecordClose ==
    [][codec = "text" /\ pc = "line" =>
          /\ (Closing /\ OpenKeys = {}) =>
                /\ result' = result
                /\ outcome' = IF AtEnd THEN Ok(result) ELSE Running
          /\ (Closing /\ OpenKeys # {} /\ OpenKeys # TxFieldKeys) =>
                /\ outcome'.tag = "ParsingError"
                /\ outcome'.source = MissingField(FirstMissing)
                /\ result' = result
          /\ (Closing /\ OpenKeys = TxFieldKeys) =>
                /\ Len(result') = Len(result) + 1
                /\ SubSeq(result', 1, Len(result)) = result
                /\ finalize(builder) = POk(result'[Len(result')])
                /\ outcome' = IF AtEnd THEN Ok(result') ELSE Running
          /\ ~Closing => result' = result]_vars

\* the end of the input closes a record that lacks FROM_USER_ID and TIMESTAMP
C13_Witness ==
    /\ codec = "text" /\ pc = "done"
    /\ outcome.tag = "ParsingError"
    /\ outcome.source = MissingField("FromUserId")
    /\ cursor = Len(input) /\ input # <<>> /\ input[Len(input)] # LF
    /\ ~builder.ts.some /\ builder.status.some

\* the input inp with the line l inserted before its i-th line
InsertLine(inp, i, l) == join(InsertAt(split(inp, LF), i, l), LF)

\* the places between the records of inp: the start, the end, and next to a
\* blank line
BetweenRecords(inp) ==
    LET ls == split(inp, LF)
    IN { i \in 1..(Len(ls) + 1) :
           \/ i = 1
           \/ i = Len(ls) + 1
           \/ IsBlankLine(ls[i - 1])
           \/ IsBlankLine(ls[i]) }

\* what a parse returns, without the place of the error
Essence(o) == IF o.tag = "ParsingError" THEN [tag |-> o.tag, source |-> o.source] ELSE o

OnlyCommentsAndBlanks(inp) ==
    \A i \in 1..Len(split(inp, LF)) :
        IsBlankLine(split(inp, LF)[i]) \/ IsCommentLine(split(inp, LF)[i])

\* C14, one step: a comment line read leaves the builder, the result and the
\* outcome as they are, and a blank line met with no field set adds no record.
C14_CommentStep ==
    (codec = "text" /\ pc = "line" /\ next_line(input, cursor).some
       /\ next_line(input, cursor).ok) =>
        LET s == text_parse_line(input, Local)
        IN /\ IsCommentLine(NextRaw) =>
                s.builder = builder /\ s.result = result /\ s.outcome = Running
           /\ (IsBlankLine(NextRaw) /\ ~builder.is_dirty) =>
                s.builder = builder /\ s.result = result /\ s.outcome = Running

\* C14, whole inputs: a comment line (indented or not) inserted anywhere, or
\* a blank line inserted between records, does not change what parse
\* returns; an input of comment and blank lines only parses to no record.
C14_CommentsAndSeparators ==
    /\ C14_CommentStep
    /\ (harness = "parse" /\ codec = "text" /\ pc = "done" /\ ~Failing(input)
         /\ Len(split(input, LF)) <= MaxInsertLines) =>
          /\ \A i \in 1..(Len(split(input, LF)) + 1) :
                \A l \in {CommentLine, IndentedComment} :
                    Essence(Parse("text", InsertLine(input, i, l))) = Essence(outcome)
          /\ \A i \in BetweenRecords(input) :
                \A l \in {<<>>, <<SPACE, 9>>} :
                    Essence(Parse("text", InsertLine(input, i, l))) = Essence(outcome)
    /\ (codec = "text" /\ pc = "done" /\ OnlyCommentsAndBlanks(input)) => outcome = Ok(<<>>)

\* two records parsed from an input that holds a comment inside a record and
\* two blank lines between the records
C14_Witness ==
    /\ harness = "parse" /\ codec = "text" /\ pc = "done"
    /\ Len(split(input, LF)) <= MaxInsertLines
    /\ outcome.tag = "Ok" /\ Len(outcome.records) = 2
    /\ \E i \in 2..8 : split(input, LF)[i] = CommentLine
    /\ \E i \in 1..(Len(split(input, LF)) - 2) :
          /\ split(input, LF)[i] = <<>>
          /\ split(input, LF)[i + 1] = <<>>
          /\ split(input, LF)[i + 2] # <<>>

\* the eight key tokens
KeyTokens == { field_key_to_string(k) : k \in TxFieldKeys }

\* what is left of ':' in the line, trimmed
KeyPart(line) == trim(Take(line, IndexFrom(line, FIELD_KV_DELIMITER, 1) - 1))

\* the classification of the line l, given the character c that decides
\* whether it is a comment, against the step the text loop takes on it
Classified(l, c) ==
    LET at == with_line_number_and_line(line_num + 1, NextRaw)
    IN /\ c = COMMENT_SYMBOL_1LINE =>
            builder' = builder /\ result' = result /\ outcome' = Running
       /\ (c # COMMENT_SYMBOL_1LINE /\ ~Contains(l, FIELD_KV_DELIMITER)) =>
            outcome' = ParsingError(NoFieldDelimiter, at)
       /\ (c # COMMENT_SYMBOL_1LINE /\ Contains(l, FIELD_KV_DELIMITER)
            /\ KeyPart(l) \notin KeyTokens) =>
            outcome' = ParsingError(UnparsableKey(KeyPart(l)), at)
       /\ (c # COMMENT_SYMBOL_1LINE /\ outcome' = Running) =>
            /\ builder' # builder
            /\ KeyPart(l) \in KeyTokens

\* a turn of the text loop on a line that is not blank
NonBlankTurn ==
    /\ codec = "text" /\ pc = "line"
    /\ next_line(input, cursor).some /\ next_line(input, cursor).ok
    /\ ~IsBlankLine(NextRaw)

\* C15 as stated: the first character of the line decides whether it is a
\* comment.
C15_FirstCharacterOfLine ==
    [][NonBlankTurn => Classified(NextRaw, NextRaw[1])]_vars

\* C15: the first character of the trimmed line decides whether the line is
\* a comment; any other non-blank line without ':' is NoFieldDelimiter, and
\* one whose trimmed key is not a key token is UnparsableKey.
C15_LineClassification ==
    [][NonBlankTurn => Classified(trim(NextRaw), trim(NextRaw)[1])]_vars

\* an indented comment was skipped inside a record that was then returned
C15_Witness ==
    /\ codec = "text" /\ pc = "done"
    /\ outcome = Ok(<<RECORD_1>>)
    /\ split(input, LF)[2] = IndentedComment

\* the description value v starts with a quote and ends with another one
IsQuoted(v) == Len(v) >= 2 /\ v[1] = QUOTE /\ v[Len(v)] = QUOTE

\* v without its first and its last character
Inside(v) == SubSeq(v, 2, Len(v) - 1)

\* the trimmed value of the KEY: value line raw
ValuePart(raw) == trim(Drop(trim(raw), IndexFrom(trim(raw), FIELD_KV_DELIMITER, 1)))

\* the trimmed tokens of the row raw
RowTokens(raw) ==
    LET ts == split(trim(raw), CSV_DELIMITER) IN [i \in 1..Len(ts) |-> trim(ts[i])]

\* the row has eight tokens and the seven before the description parse
RowValidBeforeDescription(raw) ==
    LET t == RowTokens(raw)
    IN /\ Len(t) = FIELDS_COUNT
       /\ parse_u64(t[1]).ok /\ kind_from_str(t[2]).ok /\ parse_u64(t[3]).ok
       /\ parse_u64(t[4]).ok /\ parse_i64(t[5]).ok /\ parse_u64(t[6]).ok
       /\ status_from_str(t[7]).ok

\* short strings of quotes, letters and spaces
QuoteStrings == SeqsUpTo({QUOTE, 97, SPACE}, 4)

\* C16, the function: a value with an opening and a closing quote loses
\* exactly that pair, any other value is ShellBeQuoted; the writers wrap the
\* description in one pair of quotes.
C16_UnquoteAndWrite ==
    /\ \A v \in QuoteStrings \cup DescriptionValues :
          unquote(v) = IF IsQuoted(v) THEN POk(Inside(v)) ELSE PErr(ShellBeQuoted(v))
    /\ \A tx \in Records :
          /\ \E head \in {Take(text_write_single_record(tx),
                                 Len(text_write_single_record(tx)) - Len(tx.description) - 16)} :
                text_write_single_record(tx) =
                    head \o field_key_to_string("Description") \o <<FIELD_KV_DELIMITER, SPACE>>
                         \o <<QUOTE>> \o tx.description \o <<QUOTE, LF>>
          /\ \E head \in {Take(csv_write_single_record(tx),
                                 Len(csv_write_single_record(tx)) - Len(tx.description) - 4)} :
                csv_write_single_record(tx) =
                    head \o <<CSV_DELIMITER, QUOTE>> \o tx.description \o <<QUOTE, LF>>

\* C16: in a text line and in a CSV row that pass every earlier check, the
\* description is accepted exactly when its trimmed value has an opening and
\* a closing quote, and then it is stored without that pair; otherwise the
\* parse ends with ShellBeQuoted.
C16_QuotedDescription ==
    [][/\ C16_UnquoteAndWrite
       /\ (NonBlankTurn /\ LineKey(NextRaw) = POk("Description")
            /\ "Description" \notin OpenKeys) =>
             IF IsQuoted(ValuePart(NextRaw))
             THEN /\ outcome' = Running
                  /\ builder'.description = Some(Inside(ValuePart(NextRaw)))
             ELSE outcome' = ParsingError(ShellBeQuoted(ValuePart(NextRaw)),
                                          with_line_number_and_line(line_num + 1, NextRaw))
       /\ (codec = "csv" /\ pc = "rows" /\ next_line(input, cursor).some
            /\ next_line(input, cursor).ok /\ RowValidBeforeDescription(NextRaw)) =>
             IF IsQuoted(RowTokens(NextRaw)[8])
             THEN /\ outcome' = Running
                  /\ Len(result') = Len(result) + 1
                  /\ result'[Len(result')].description = Inside(RowTokens(NextRaw)[8])
             ELSE outcome' = ParsingError(ShellBeQuoted(RowTokens(NextRaw)[8]),
                                          with_line_number_and_line(line_num, NextRaw))]_vars

\* a CSV row whose description is a lone quote character is rejected
C16_Witness ==
    /\ codec = "csv" /\ pc = "done"
    /\ outcome.tag = "ParsingError"
    /\ outcome.source = ShellBeQuoted(<<QUOTE>>)

\* the first line of the input, as lines() yields it
FirstLine == next_line(input, 0).line

\* C17: the step on the first line of a CSV input goes on to the rows only
\* when the line is the header string; any other first line ends the parse
\* with InvalidFileHeader at line 0, with no row read, whatever follows; the
\* header alone parses to no record.
C17_HeaderValidation ==
    [][(codec = "csv" /\ pc = "header" /\ next_line(input, 0).some /\ next_line(input, 0).ok) =>
          /\ cursor = 0
          /\ (FirstLine = HEADER_SIGNATURE) =>
                /\ pc' = "rows" /\ outcome' = Running /\ result' = <<>>
                /\ (next_line(input, cursor').some
                     \/ Parse("csv", input) = Ok(<<>>))
          /\ (FirstLine # HEADER_SIGNATURE) =>
                /\ pc' = "done"
                /\ outcome' = ParsingError(InvalidFileHeader,
                                           with_line_number_and_line(0, FirstLine))
                /\ result' = <<>>
                /\ cursor' = next_line(input, 0).cursor
                /\ outcome' = Parse("csv", Take(input, cursor'))]_vars

\* the header with a renamed column is rejected although a valid row follows
C17_Witness ==
    /\ codec = "csv" /\ pc = "done"
    /\ outcome = ParsingError(InvalidFileHeader, with_line_number_and_line(0, WrongHeader))
    /\ result = <<>>
    /\ input = JoinLines(<<WrongHeader, Row(Tokens(RECORD_1))>>)

\* the number of tokens a line splits into: one more than its commas
TokenCount(line) == Cardinality({ i \in 1..Len(line) : line[i] = CSV_DELIMITER }) + 1

IsIncompleteRecordAt(o, n, raw) ==
    o = ParsingError(IncompleteRecord, with_line_number_and_line(n, raw))

\* C18: a line after the header that does not split into eight tokens ends
\* the parse with IncompleteRecord, whatever its tokens are; a line of eight
\* tokens is never IncompleteRecord.
C18_ColumnCount ==
    [][(codec = "csv" /\ pc = "rows" /\ next_line(input, cursor).some
        /\ next_line(input, cursor).ok) =>
          /\ TokenCount(trim(NextRaw)) # FIELDS_COUNT =>
                /\ IsIncompleteRecordAt(outcome', line_num, NextRaw)
                /\ result' = result
          /\ TokenCount(trim(NextRaw)) = FIELDS_COUNT =>
                (outcome'.tag = "ParsingError" => outcome'.source # IncompleteRecord)]_vars

\* a row of nine tokens whose id does not parse is IncompleteRecord
C18_Witness ==
    /\ codec = "csv" /\ pc = "done"
    /\ outcome.tag = "ParsingError"
    /\ outcome.source = IncompleteRecord
    /\ TokenCount(input_line) = 9
    /\ ~parse_u64(RowTokens(input_line)[1]).ok

\* C19: an error of the CSV parse names the raw text of the last line read
\* and its number, the header being line 0: 0 for a header error, k for an
\* error in the k-th row, the k - 1 rows before it having been parsed.
C19_CsvErrorLocation ==
    (codec = "csv" /\ pc = "done" /\ outcome.tag = "ParsingError") =>
        /\ outcome.context.ctx = "LineNumAndLine"
        /\ outcome.context.line_num = Len(ConsumedLines) - 1
        /\ outcome.context.line = ConsumedLines[Len(ConsumedLines)]
        /\ IF outcome.source = InvalidFileHeader
           THEN outcome.context.line_num = 0
           ELSE outcome.context.line_num = Len(result) + 1

\* an error in the second row, a line of two spaces, after one parsed row
C19_Witness ==
    /\ codec = "csv" /\ pc = "done"
    /\ outcome = ParsingError(IncompleteRecord, with_line_number_and_line(2, <<SPACE, SPACE>>))
    /\ Len(result) = 1

\* how many times the record r occurs in the sequence recs
Occurrences(r, recs) == Cardinality({ i \in 1..Len(recs) : recs[i] = r })

\* occurrences in file 1 minus occurrences in file 2
NetCount(r) ==
    Occurrences(r, Format_parse(format1, file1).records)
    - Occurrences(r, Format_parse(format2, file2).records)

\* C20 as stated: the line printed for a record names file #2 when the net
\* count of the record is positive and file #1 when it is negative.
C20_NamesFileLackingRecord ==
    [][(harness = "comparer" /\ pc = "items" /\ pc' = "items") =>
          \E item \in DOMAIN record_count \ DOMAIN record_count' :
              /\ NetCount(item) # 0
              /\ stdout'[Len(stdout')].id = item.id
              /\ stdout'[Len(stdout')].file = IF NetCount(item) > 0 THEN "#2" ELSE "#1"]_vars

\* the comparer has read both files and returned Ok(())
Compared == harness = "comparer" /\ pc = "done" /\ outcome = OkUnit

\* the records of the sequence recs
Elements(recs) == { recs[i] : i \in 1..Len(recs) }

\* the records that do not occur as often in recs1 as in recs2
Unmatched(recs1, recs2) ==
    { r \in Elements(recs1) \cup Elements(recs2) :
          Occurrences(r, recs1) # Occurrences(r, recs2) }

\* the lines of a report of the records of the sequence p, one line each,
\* for files holding recs1 and recs2
ReportOf(p, recs1, recs2) ==
    <<LineUnique(Len(p))>>
    \o [i \in 1..Len(p) |->
          [line |-> "There is no equivivalent for transaction {} in the file '{}'",
           id |-> p[i].id,
           file |-> IF Occurrences(p[i], recs1) > Occurrences(p[i], recs2)
                    THEN "#1" ELSE "#2"]]

\* C21: when the comparer has compared two files, it has printed the one
\* line 'all identical' exactly when every record occurs as often in file 1
\* as in file 2 (records equal in all eight fields, whatever the order of
\* the records and the formats of the files); otherwise it has printed the
\* number of distinct records with a non-zero net count and then one line
\* for each of them, in some order, and no other line; the line of a record
\* that file 1 holds more often names '#1'.
C21_MultisetDifference ==
    Compared =>
        LET recs1 == Format_parse(format1, file1).records
            recs2 == Format_parse(format2, file2).records
            unmatched == Unmatched(recs1, recs2)
        IN /\ (stdout = <<LineIdentical>>) <=> (unmatched = {})
           /\ unmatched # {} =>
                 \E p \in Orders(unmatched) : stdout = ReportOf(p, recs1, recs2)

\* file 1 = {tx1, tx2} as text, file 2 = {tx2} as csv: one unmatched
\* record, tx1, attributed to file #1
C21_Witness ==
    /\ Compared
    /\ format1 = "text" /\ file1 = Write("text", <<sample_tx, RECORD_1>>)
    /\ format2 = "csv" /\ file2 = Write("csv", <<RECORD_1>>)
    /\ stdout = <<LineUnique(1), LineNoEquivalent(sample_tx.id, 1)>>

\* the bytes a run that converts the records recs is to leave on stdout
ConvertedOutput(recs) == LineIngested(Len(recs)) \o Write(output_format, recs)

\* the run has ended with an error of File::open or of parse
ConverterRefused ==
    /\ harness = "converter" /\ pc \in {"exit", "exited"}
    /\ outcome \notin {OkUnit, PrintPanic, WriteError}

\* C22 as stated: when the converter has ended, a run whose input did not
\* parse has written nothing to stdout and ended with the error, and a run
\* that returned Ok(()) has reported the number of records parse returned
\* and has written every one of them to stdout, in the order of the input.
C22_ConverterOrdering ==
    (harness = "converter" /\ pc = "exited") =>
        /\ ConverterRefused =>
               /\ stdout = <<>>
               /\ outcome \in {OpenError, Parse(codec, input)}
        /\ outcome = OkUnit =>
               /\ Parse(codec, input) = Ok(data)
               /\ stdout = ConvertedOutput(data)

\* what does hold of the output of the converter in every state: nothing
\* is printed or written before parse has consumed the input and returned
\* Ok, nor in a run whose input does not parse; what is on stdout and in
\* the buffer is the beginning of the count of the parsed records followed
\* by these records in the order of the input; when run returns Ok(()) all
\* of it is on stdout or in the buffer, and all of it is on stdout at the
\* end of the process when stdout takes every byte.
ConverterOutputInOrder ==
    harness = "converter" =>
        /\ stdout \o stdout_buffer # <<>> =>
               /\ pc \in {"out_header", "out", "exit", "exited"}
               /\ data = result /\ cursor = Len(input)
        /\ ConverterRefused => stdout \o stdout_buffer = <<>>
        /\ IsPrefix(stdout \o stdout_buffer, ConvertedOutput(data))
        /\ (pc \in {"exit", "exited"} /\ outcome = OkUnit) =>
               /\ widx = Len(data)
               /\ stdout \o stdout_buffer = ConvertedOutput(data)
               /\ (pc = "exited" /\ ~stdout_room.limited) => stdout_buffer = <<>>
        /\ pc = "exited" =>
               \/ outcome \in {OpenError, PrintPanic, WriteError}
               \/ outcome = OkUnit /\ Parse(codec, input) = Ok(data)
               \/ outcome.tag # "Ok" /\ outcome = Parse(codec, input)

\* a binary file of RECORD_1 converted to binary, with a stdout that takes
\* the 33 bytes of the count: run returns Ok(()), the process ends with
\* status 0, and no byte of the record is on stdout
ConverterRecordLost ==
    /\ harness = "converter" /\ pc = "exited" /\ outcome = OkUnit
    /\ codec = "binary" /\ output_format = "binary"
    /\ data = <<RECORD_1>>
    /\ stdout = LineIngested(1)
    /\ stdout_buffer = binary_write_record(RECORD_1)

\* C23 as stated: a CSV parse that returns Ok has read a first line, and
\* that line is the header string; the empty stream is not parsed to Ok.
C23_OkOnlyWithHeader ==
    (codec = "csv" /\ pc = "done" /\ outcome.tag = "Ok") =>
        /\ next_line(input, 0).some
        /\ FirstLine = HEADER_SIGNATURE

RECURSIVE FullyFramed(_)
\* the stream is a sequence of whole frames: each has its eight header
\* bytes and as many body bytes as its length field declares
FullyFramed(inp) ==
    \/ inp = <<>>
    \/ /\ Len(inp) >= 8
       /\ Len(inp) >= 8 + u_from_be_bytes(SubSeq(inp, 5, 8))
       /\ FullyFramed(Drop(inp, 8 + u_from_be_bytes(SubSeq(inp, 5, 8))))

\* C24 as stated: the binary parse of a stream made only of whole frames
\* ends with Ok or with a ParsingError that carries a context, never with
\* ReadError.
C24_ReadErrorOnlyAtEndOfStream ==
    (codec = "binary" /\ pc = "done" /\ FullyFramed(input)) =>
        \/ outcome.tag = "Ok"
        \/ outcome.tag = "ParsingError" /\ outcome.context.ctx \in {"Position", "PositionAndField"}

\* C25 as stated: whenever the binary parse stands at a frame boundary, the
\* running offset `pos` of the error contexts is the number of bytes
\* consumed from the stream.
C25_OffsetIsBytesConsumed ==
    (codec = "binary" /\ pc = "magic") => pos = cursor

\* a turn of the text loop on a line that is neither blank nor a comment
FieldTurn == NonBlankTurn /\ ~IsCommentLine(NextRaw)

\* the field key whose token is the string s
KeyOf(s) == CHOOSE k \in TxFieldKeys : field_key_to_string(k) = s

\* v is a string of decimal digits after at most one of the signs, and the
\* number it writes lies in the range of the type: the digits are no more
\* than those of max, or of min_magnitude after a minus sign
IsNumber(v, signs, max, min_magnitude) ==
    LET ds == IF v # <<>> /\ v[1] \in signs THEN Tail(v) ELSE v
    IN /\ ds # <<>>
       /\ \A i \in 1..Len(ds) : ds[i] \in DIGIT0..(DIGIT0 + 9)
       /\ ~overflows(ds, IF v[1] = MINUS THEN min_magnitude ELSE max)

\* the value v is one the field k takes
ValueAccepted(k, v) ==
    CASE k \in {"Id", "FromUserId", "ToUserId", "Timestamp"} ->
            IsNumber(v, {PLUS}, U64_MAX, U64_MAX)
      [] k = "Amount" -> IsNumber(v, {PLUS, MINUS}, I64_MAX, I64_MIN_MAGNITUDE)
      [] k = "TxKind" -> v \in KindTokens
      [] k = "Status" -> v \in StatusTokens
      [] k = "Description" -> IsQuoted(v)

\* C26: on a line that is neither blank nor a comment the first of these
\* checks that fails decides the error, at that line: no ':' in the line
\* (NoFieldDelimiter), the key is not a key token (UnparsableKey), the key
\* has a line in the open record already (Duplicate), the value is not one
\* the field takes (ShellBeQuoted for the description, UnparsableValue for
\* the other fields); when none fails the field is set.
C26_ErrorPrecedence ==
    [][FieldTurn =>
          LET l == trim(NextRaw)
              at == with_line_number_and_line(line_num + 1, NextRaw)
          IN IF ~Contains(l, FIELD_KV_DELIMITER)
             THEN outcome' = ParsingError(NoFieldDelimiter, at)
             ELSE IF KeyPart(l) \notin KeyTokens
             THEN outcome' = ParsingError(UnparsableKey(KeyPart(l)), at)
             ELSE IF KeyOf(KeyPart(l)) \in OpenKeys
             THEN outcome' = ParsingError(Duplicate(KeyOf(KeyPart(l))), at)
             ELSE IF ~ValueAccepted(KeyOf(KeyPart(l)), ValuePart(NextRaw))
             THEN /\ outcome'.tag = "ParsingError"
                  /\ outcome'.context = at
                  /\ outcome'.source.err = IF KeyOf(KeyPart(l)) = "Description"
                                           THEN "ShellBeQuoted" ELSE "UnparsableValue"
             ELSE /\ outcome' = Running
                  /\ BuilderField(builder', KeyOf(KeyPart(l))).some]_vars

\* the second DESCRIPTION line has no quotes and is reported as a duplicate
C26_Witness ==
    /\ codec = "text" /\ pc = "done"
    /\ outcome = ParsingError(Duplicate("Description"),
                              with_line_number_and_line(2, FieldLine("Description", DescOk)))

\* the line raw is a field line: neither blank nor a comment
IsFieldLine(raw) == ~IsBlankLine(raw) /\ ~IsCommentLine(raw)

\* the number of maximal runs of lines between blank lines that hold a field
\* line, counted by the first field line of each run
FieldRuns(ls) ==
    Cardinality({ i \in 1..Len(ls) :
                    /\ IsFieldLine(ls[i])
                    /\ \A j \in 1..(i - 1) :
                          IsFieldLine(ls[j]) => \E m \in (j + 1)..(i - 1) : IsBlankLine(ls[m]) })

\* C27: a turn of the text loop on a blank line that does not end the parse
\* leaves a builder with no field set and not dirty; Duplicate is reported
\* only for a key that has a line since the last blank line, so never for a
\* key that only the record before the blank line had; and a parse that
\* returns Ok returns as many records as the input has runs of lines,
\* delimited by blank lines, that hold a field line.
C27_BuilderIsolation ==
    [][(codec = "text" /\ pc = "line") =>
          /\ (next_line(input, cursor).some /\ next_line(input, cursor).ok
               /\ IsBlankLine(NextRaw) /\ outcome' = Running) =>
                 /\ builder' = RecordBuilder_new
                 /\ ~builder'.is_dirty
                 /\ \A k \in TxFieldKeys : ~BuilderField(builder', k).some
          /\ \A k \in TxFieldKeys :
                (outcome'.tag = "ParsingError" /\ outcome'.source = Duplicate(k)) =>
                    k \in OpenKeys
          /\ outcome'.tag = "Ok" =>
                /\ cursor = Len(input)
                /\ Len(outcome'.records) = FieldRuns(ConsumedLines)]_vars

\* two records with the same eight keys, two blank lines between them, are
\* both returned
C27_Witness ==
    /\ harness = "parse" /\ codec = "text" /\ pc = "done"
    /\ input = Unended(JoinBlocks(<<Lines(RECORD_1), Lines(RECORD_1)>>, <<LF, LF>>))
    /\ outcome = Ok(<<RECORD_1, RECORD_1>>)
    /\ FieldRuns(ConsumedLines) = 2

====
